---- MODULE Spec2Model ----
(***************************************************************************)
(* Context-assembly and safe-edit engine of the coding assistant:          *)
(*   src/src/lib/github.ts         GitHubClient (remote repository access, *)
(*                                 import parsing, hybrid loading,         *)
(*                                 str_replace)                            *)
(*   src/src/app/api/chat/route.ts POST (one turn), findRelevantFiles,     *)
(*                                 extractKeywords, executeToolCall        *)
(*   src/src/app/api/github/route.ts ClaudeClient (chat, cost tracker)     *)
(*                                                                         *)
(* A JavaScript string is modelled as the sequence of its characters, each *)
(* a one-character TLA+ string: "a.ts" is <<"a", ".", "t", "s">>.          *)
(***************************************************************************)
EXTENDS Integers, Sequences, FiniteSets, TLC

(***************************************************************************)
(* String primitives of JavaScript, on character sequences.                *)
(***************************************************************************)

\* s.substring(from - 1, to): the characters at 1-based positions from..to.
Sub(s, from, to) == [k \in 1..(IF to >= from THEN to - from + 1 ELSE 0) |-> s[from + k - 1]]

\* s.substring(from - 1): the characters from 1-based position from on.
Drop(s, from) == Sub(s, from, Len(s))

\* s.startsWith(pre, at - 1): pre occurs in s at 1-based position at.
OccursAt(s, pre, at) ==
  /\ at >= 1
  /\ at + Len(pre) - 1 <= Len(s)
  /\ \A k \in 1..Len(pre) : s[at + k - 1] = pre[k]

\* s.startsWith(pre)
StartsWith(s, pre) == OccursAt(s, pre, 1)

\* s.indexOf(sub, from - 1) + 1: the first 1-based position >= from at which
\* sub occurs, 0 when there is none.  The empty string occurs at every
\* position 1..Len(s)+1.
IndexOfFrom(s, sub, from) ==
  LET hits == {i \in from..(Len(s) + 1) : OccursAt(s, sub, i)}
  IN IF hits = {} THEN 0 ELSE CHOOSE i \in hits : \A j \in hits : i <= j

\* s.indexOf(sub) + 1
IndexOf(s, sub) == IndexOfFrom(s, sub, 1)

\* s.includes(sub)
Includes(s, sub) == IndexOf(s, sub) # 0

\* s.split(sep) for a non-empty separator: the pieces between the
\* successive, non-overlapping occurrences of sep found left to right.
RECURSIVE SplitNonEmpty(_, _)
SplitNonEmpty(s, sep) ==
  LET i == IndexOf(s, sep)
  IN IF i = 0 THEN <<s>>
     ELSE <<Sub(s, 1, i - 1)>> \o SplitNonEmpty(Drop(s, i + Len(sep)), sep)

\* s.split(sep).  With the empty separator the result is the array of the
\* single characters of s (the empty array for the empty string).
Split(s, sep) ==
  IF Len(sep) = 0 THEN [k \in 1..Len(s) |-> <<s[k]>>]
  ELSE SplitNonEmpty(s, sep)

\* parts.join(sep)
RECURSIVE Join(_, _)
Join(parts, sep) ==
  IF Len(parts) = 0 THEN <<>>
  ELSE IF Len(parts) = 1 THEN parts[1]
  ELSE parts[1] \o sep \o Join(Tail(parts), sep)

\* arr.slice(0, -1)
SliceButLast(arr) == Sub(arr, 1, Len(arr) - 1)

\* The replacement text of s.replace(old, new) for a string pattern: in new,
\* "$$" stands for "$", "$&" for the matched text and "$'" for the text after
\* the match; a "$" before any other character of the model's alphabet is
\* literal.  (The fourth pattern, "$" followed by a backquote, stands for the
\* text before the match; the model's alphabet has no backquote.)
RECURSIVE ExpandReplacement(_, _, _)
ExpandReplacement(new, matched, after) ==
  IF Len(new) = 0 THEN <<>>
  ELSE IF new[1] = "$" /\ Len(new) >= 2 /\ new[2] \in {"$", "&", "'"}
  THEN (CASE new[2] = "$" -> <<"$">>
          [] new[2] = "&" -> matched
          [] new[2] = "'" -> after)
       \o ExpandReplacement(Drop(new, 3), matched, after)
  ELSE <<new[1]>> \o ExpandReplacement(Drop(new, 2), matched, after)

\* s.replace(old, new) with a string pattern: the first occurrence only.
Replace(s, old, new) ==
  LET i == IndexOf(s, old)
  IN IF i = 0 THEN s
     ELSE LET before == Sub(s, 1, i - 1)
              after  == Drop(s, i + Len(old))
          IN before \o ExpandReplacement(new, old, after) \o after

(***************************************************************************)
(* Characters and words used by the sources' literals.                     *)
(***************************************************************************)
\* The characters \s matches (among those of the model's alphabet).
WhiteSpace == {" ", "\t", "\n", "\r"}
\* The line terminators, which "." does not match.
LineTerminator == {"\n", "\r"}
\* ['"]
Quote == {"'", "\""}

wImport  == <<"i", "m", "p", "o", "r", "t">>
wFrom    == <<"f", "r", "o", "m">>
wRequire == <<"r", "e", "q", "u", "i", "r", "e">>
sSlash   == <<"/">>
sDot     == <<".">>
sDotDot  == <<".", ".">>
sDotSlash    == <<".", "/">>
sDotDotSlash == <<".", ".", "/">>
extTs  == <<".", "t", "s">>
extTsx == <<".", "t", "s", "x">>
extJs  == <<".", "j", "s">>
extJsx == <<".", "j", "s", "x">>
idxTs  == <<"/", "i", "n", "d", "e", "x", ".", "t", "s">>
idxTsx == <<"/", "i", "n", "d", "e", "x", ".", "t", "s", "x">>
idxJs  == <<"/", "i", "n", "d", "e", "x", ".", "j", "s">>

\* The length of the longest run of characters of set cs in s from 1-based
\* position at (a greedy run).
RECURSIVE RunLen(_, _, _)
RunLen(s, cs, at) ==
  IF at <= Len(s) /\ s[at] \in cs THEN 1 + RunLen(s, cs, at + 1) ELSE 0

\* The length of the longest run of characters outside cs in s from at.
RECURSIVE RunLenNot(_, _, _)
RunLenNot(s, cs, at) ==
  IF at <= Len(s) /\ s[at] \notin cs THEN 1 + RunLenNot(s, cs, at + 1) ELSE 0

(***************************************************************************)
(* GitHubClient.parseImports and resolveImportPath (src/src/lib/github.ts) *)
(***************************************************************************)

\* The tail of importRegex after ".*", tried at 1-based position c:
\*   \s+from\s+['"]([^'"]+)['"]
\* Every quantifier here is greedy and is followed by a character it cannot
\* match, so only its longest run can succeed.  The result is <<>> when the
\* tail does not match at c, else <<capture, position after the match>>.
importRegexTail(s, c) ==
  LET k3 == RunLen(s, WhiteSpace, c)
      d  == c + k3
      e  == d + Len(wFrom)
      k4 == RunLen(s, WhiteSpace, e)
      q  == e + k4
      r  == q + 1
      k5 == RunLenNot(s, Quote, r)
      t  == r + k5
  IN IF /\ k3 >= 1
        /\ OccursAt(s, wFrom, d)
        /\ k4 >= 1
        /\ q <= Len(s) /\ s[q] \in Quote
        /\ k5 >= 1
        /\ t <= Len(s) /\ s[t] \in Quote
     THEN <<Sub(s, r, t - 1), t + 1>>
     ELSE <<>>

\* importRegex = /import\s+.*\s+from\s+['"]([^'"]+)['"]/ tried at position i.
\* The backtracking order prefers the longest first \s+ and then the longest
\* ".*" (which matches no line terminator) for which the tail matches.
importRegexAt(s, i) ==
  LET a == i + Len(wImport)
      cands == {kk \in (1..RunLen(s, WhiteSpace, a)) \X (0..Len(s)) :
                  /\ kk[2] <= RunLenNot(s, LineTerminator, a + kk[1])
                  /\ importRegexTail(s, a + kk[1] + kk[2]) # <<>>}
      best == CHOOSE kk \in cands : \A o \in cands :
                 \/ kk[1] > o[1]
                 \/ (kk[1] = o[1] /\ kk[2] >= o[2])
  IN IF ~OccursAt(s, wImport, i) \/ cands = {} THEN <<>>
     ELSE importRegexTail(s, a + best[1] + best[2])

\* requireRegex = /require\s*\(['"]([^'"]+)['"]\)/ tried at position i.
requireRegexAt(s, i) ==
  LET a  == i + Len(wRequire)
      k1 == RunLen(s, WhiteSpace, a)
      p  == a + k1
      q  == p + 1
      r  == q + 1
      k2 == RunLenNot(s, Quote, r)
      t  == r + k2
  IN IF /\ OccursAt(s, wRequire, i)
        /\ p <= Len(s) /\ s[p] = "("
        /\ q <= Len(s) /\ s[q] \in Quote
        /\ k2 >= 1
        /\ t <= Len(s) /\ s[t] \in Quote
        /\ t + 1 <= Len(s) /\ s[t + 1] = ")"
     THEN <<Sub(s, r, t - 1), t + 2>>
     ELSE <<>>

\* The loop "while ((match = importRegex.exec(content)) !== null)" of a
\* global regular expression: the captures of the successive leftmost
\* matches, each search starting where the previous match ended.
RECURSIVE importRegexExecAll(_, _)
importRegexExecAll(s, from) ==
  LET starts == {i \in from..Len(s) : importRegexAt(s, i) # <<>>}
      i == CHOOSE x \in starts : \A y \in starts : x <= y
      m == importRegexAt(s, i)
  IN IF starts = {} THEN <<>>
     ELSE <<m[1]>> \o importRegexExecAll(s, m[2])

RECURSIVE requireRegexExecAll(_, _)
requireRegexExecAll(s, from) ==
  LET starts == {i \in from..Len(s) : requireRegexAt(s, i) # <<>>}
      i == CHOOSE x \in starts : \A y \in starts : x <= y
      m == requireRegexAt(s, i)
  IN IF starts = {} THEN <<>>
     ELSE <<m[1]>> \o requireRegexExecAll(s, m[2])

\* The loop of resolveImportPath over the path parts: ".." pops the last
\* resolved part (nothing when there is none), "." and "" are dropped.
RECURSIVE resolveParts(_, _)
resolveParts(parts, resolved) ==
  IF Len(parts) = 0 THEN resolved
  ELSE LET part == Head(parts)
       IN resolveParts(Tail(parts),
            IF part = sDotDot THEN SliceButLast(resolved)
            ELSE IF part # sDot /\ part # <<>> THEN Append(resolved, part)
            ELSE resolved)

resolveImportPath(importPath, currentPath) ==
  IF StartsWith(importPath, sDotSlash) \/ StartsWith(importPath, sDotDotSlash)
  THEN LET currentDir == Join(SliceButLast(Split(currentPath, sSlash)), sSlash)
           parts == Split(currentDir, sSlash) \o Split(importPath, sSlash)
       IN Join(resolveParts(parts, <<>>), sSlash)
  ELSE importPath

\* The filter of parseImports' return statement, applied to a resolved path.
importFilter(i) ==
  StartsWith(i, sDotSlash) \/ StartsWith(i, sDotDotSlash) \/ StartsWith(i, sSlash)

parseImports(content, currentPath) ==
  LET raw == importRegexExecAll(content, 1) \o requireRegexExecAll(content, 1)
      imports == [k \in 1..Len(raw) |-> resolveImportPath(raw[k], currentPath)]
  IN SelectSeq(imports, importFilter)

(***************************************************************************)
(* The remote repository (the GitHub contents API behind octokit).         *)
(* remote maps each path at which a file exists to the file's content.     *)
(***************************************************************************)
VARIABLES
  remote,      \* the remote repository: path -> content, for the existing files
  faults,      \* transient remote failures (RemoteUnavailable) injected so far
  extWrites,   \* changes made to the remote by other clients so far
  branchLive,  \* whether the branch of the requests exists
  \* ---- one call of GitHubClient.getFilesWithImports ----
  glPc,        \* "idle" | "running" | "returned"
  entryPaths,  \* its argument entryPaths
  maxDepth,    \* its argument maxDepth
  loaded,      \* const loaded = new Set<string>()
  files,       \* const files: RepoFile[] = []
  loads        \* the invocations of loadFile, in the order they were made

\* Bound of the model: the number of transient remote failures in one run.
MaxFaults == 1

remoteVars == <<remote, faults, extWrites, branchLive>>
loaderVars == <<glPc, entryPaths, maxDepth, loaded, files, loads>>

\* The blob hash the contents API reports as a file's sha: content-addressed,
\* so two files have equal sha exactly when their contents are equal.
blobSha(content) == <<"blob", content>>

\* The RepoFile getFileContent returns for an existing file (line 80).
RepoFile(path) == [path |-> path, content |-> remote[path], sha |-> blobSha(remote[path])]

\* possiblePaths of loadFile, in the order the loop tries them.
possiblePaths(path) ==
  << path,
     path \o extTs, path \o extTsx, path \o extJs, path \o extJsx,
     path \o idxTs, path \o idxTsx, path \o idxJs >>

\* loadFile(path, depth) run from its call up to its first await: the loop
\* returns at once when the first candidate is already in loaded, and
\* otherwise issues the fetch of that candidate.
loadFileCall(path, depth, parent, seen) ==
  [ path |-> path, depth |-> depth, parent |-> parent, cand |-> 1,
    st |-> IF possiblePaths(path)[1] \in seen THEN "done" ELSE "fetch" ]

\* xs.map(p => loadFile(p, depth)): the invocations start in order, each
\* running to its first await before the next starts.
loadFileCalls(xs, depth, parent, seen) ==
  [k \in 1..Len(xs) |-> loadFileCall(xs[k], depth, parent, seen)]

\* The candidate whose fetch invocation t is waiting for.
Candidate(t) == possiblePaths(loads[t].path)[loads[t].cand]

\* await Promise.all(...) over the invocations made by parent: they all returned.
ChildrenDone(parent) ==
  \A c \in 1..Len(loads) : loads[c].parent = parent => loads[c].st = "done"

\* getFilesWithImports(entryPaths, branch, maxDepth) up to its await
\* (lines 131-167): loadFile is invoked for every entry path.
getFilesWithImportsCall(eps, md) ==
  /\ glPc' = "running"
  /\ entryPaths' = eps
  /\ maxDepth' = md
  /\ loaded' = {}
  /\ files' = <<>>
  /\ loads' = loadFileCalls(eps, 0, 0, {})

\* A caller invokes getFilesWithImports.
GetFilesWithImports(eps, md) ==
  /\ glPc = "idle"
  /\ getFilesWithImportsCall(eps, md)
  /\ UNCHANGED <<remote, faults, extWrites, branchLive>>

\* A loadFile that goes on with the next candidate after a fetch has
\* resolved.
FetchOkGoesOn(t) ==
  /\ glPc = "running"
  /\ loads[t].st = "fetch"
  /\ Candidate(t) \in DOMAIN remote
  /\ loaded' = loaded \cup {Candidate(t)}
  /\ files' = Append(files, RepoFile(Candidate(t)))
  /\ loads' = IF loads[t].cand < Len(possiblePaths(loads[t].path))
              THEN [loads EXCEPT ![t].cand = @ + 1]
              ELSE [loads EXCEPT ![t].st = "done"]
  /\ UNCHANGED <<glPc, entryPaths, maxDepth, remote, faults, extWrites, branchLive>>

\* The fetch of invocation t's candidate resolves (lines 151-160).
FetchOk(t) ==
  /\ glPc = "running"
  /\ loads[t].st = "fetch"
  /\ Candidate(t) \in DOMAIN remote
  /\ LET p == Candidate(t)
         file == RepoFile(p)
         seen == loaded \cup {p}
     IN /\ loaded' = seen
        /\ files' = Append(files, file)
        /\ IF loads[t].depth < maxDepth
           THEN loads' = [loads EXCEPT ![t].st = "join"]
                           \o loadFileCalls(parseImports(file.content, p),
                                            loads[t].depth + 1, t, seen)
           ELSE loads' = [loads EXCEPT ![t].st = "done"]
  /\ UNCHANGED <<glPc, entryPaths, maxDepth, remote, faults, extWrites, branchLive>>

\* A loop that stays at the candidate whose fetch was rejected and fetches
\* it again.
loadFileRetry(t) == loads

\* After a rejected fetch the catch block is empty and the loop goes on with
\* the next candidate: it returns when there is none left or when the next
\* one is already in loaded, and fetches it otherwise (lines 147-163).
loadFileNext(t) ==
  IF loads[t].cand = Len(possiblePaths(loads[t].path))
  THEN [loads EXCEPT ![t].st = "done"]
  ELSE IF possiblePaths(loads[t].path)[loads[t].cand + 1] \in loaded
  THEN [loads EXCEPT ![t].st = "done", ![t].cand = @ + 1]
  ELSE [loads EXCEPT ![t].cand = @ + 1]

\* The fetch of invocation t's candidate rejects: there is no file at the
\* path (getContent fails, or line 76 throws for a directory).
FetchNotFound(t) ==
  /\ glPc = "running"
  /\ loads[t].st = "fetch"
  /\ Candidate(t) \notin DOMAIN remote
  /\ loads' = loadFileNext(t)
  /\ UNCHANGED <<glPc, entryPaths, maxDepth, loaded, files, remote, faults, extWrites, branchLive>>

\* The fetch of invocation t's candidate rejects although the file exists:
\* the remote is unavailable (a network or API failure).  The catch block
\* does not tell the two apart.
FetchUnavailable(t) ==
  /\ glPc = "running"
  /\ loads[t].st = "fetch"
  /\ Candidate(t) \in DOMAIN remote
  /\ faults < MaxFaults
  /\ faults' = faults + 1
  /\ loads' = loadFileNext(t)
  /\ UNCHANGED <<glPc, entryPaths, maxDepth, loaded, files, remote, extWrites, branchLive>>

\* Promise.all over the imports of invocation t resolves and t returns
\* (lines 158-160).
LoadFileJoin(t) ==
  /\ glPc = "running"
  /\ loads[t].st = "join"
  /\ ChildrenDone(t)
  /\ loads' = [loads EXCEPT ![t].st = "done"]
  /\ UNCHANGED <<glPc, entryPaths, maxDepth, loaded, files, remote, faults, extWrites, branchLive>>

\* Promise.all over the entry paths resolves and getFilesWithImports
\* returns files (lines 167-168).
GetFilesWithImportsReturn ==
  /\ glPc = "running"
  /\ ChildrenDone(0)
  /\ glPc' = "returned"
  /\ UNCHANGED <<entryPaths, maxDepth, loaded, files, loads, remote, faults, extWrites, branchLive>>

(***************************************************************************)
(* extractKeywords (src/src/app/api/chat/route.ts)                         *)
(***************************************************************************)
lowerCase == <<"a", "b", "c", "d", "e", "f", "g", "h", "i", "j", "k", "l", "m", "n", "o", "p", "q", "r", "s", "t", "u", "v", "w", "x", "y", "z">>
upperCase == <<"A", "B", "C", "D", "E", "F", "G", "H", "I", "J", "K", "L", "M", "N", "O", "P", "Q", "R", "S", "T", "U", "V", "W", "X", "Y", "Z">>
Lower == {lowerCase[k] : k \in 1..Len(lowerCase)}
Upper == {upperCase[k] : k \in 1..Len(upperCase)}
Digit == {"0", "1", "2", "3", "4", "5", "6", "7", "8", "9"}
\* \w
WordChar == Lower \cup Upper \cup Digit \cup {"_"}
\* [\w-]
WordOrDash == WordChar \cup {"-"}

\* c.toLowerCase() for one character.
toLowerCase(c) ==
  IF c \in Upper THEN lowerCase[CHOOSE k \in 1..Len(upperCase) : upperCase[k] = c] ELSE c

\* pre occurs in s at position at, letter case ignored (the i flag).
OccursAtIgnoreCase(s, pre, at) ==
  /\ at >= 1
  /\ at + Len(pre) - 1 <= Len(s)
  /\ \A k \in 1..Len(pre) : toLowerCase(s[at + k - 1]) = toLowerCase(pre[k])

\* \b at 1-based position i: exactly one of the characters before and at i
\* is a word character.
WordBoundary(s, i) ==
  (i - 1 >= 1 /\ s[i - 1] \in WordChar) # (i <= Len(s) /\ s[i] \in WordChar)

\* The alternatives of the three regular expressions, in their order.
codeTermWords ==
  << <<"c", "o", "m", "p", "o", "n", "e", "n", "t">>,
     <<"f", "u", "n", "c", "t", "i", "o", "n">>,
     <<"a", "p", "i">>,
     <<"r", "o", "u", "t", "e">>,
     <<"s", "e", "r", "v", "i", "c", "e">>,
     <<"u", "t", "i", "l">>,
     <<"h", "o", "o", "k">>,
     <<"t", "y", "p", "e">>,
     <<"i", "n", "t", "e", "r", "f", "a", "c", "e">>,
     <<"c", "l", "a", "s", "s">>,
     <<"m", "o", "d", "u", "l", "e">>,
     <<"p", "a", "g", "e">>,
     <<"l", "a", "y", "o", "u", "t">> >>
fileExtensions ==
  << <<"t", "s">>,
     <<"t", "s", "x">>,
     <<"j", "s">>,
     <<"j", "s", "x">>,
     <<"c", "s", "s">>,
     <<"j", "s", "o", "n">>,
     <<"p", "y">> >>

\* The first alternative of alts that occurs in s at position at (letter case
\* ignored) and, with bounded, is followed by a word boundary; 0 if none.
FirstAlternative(s, alts, at, bounded) ==
  LET ok == {k \in 1..Len(alts) :
               /\ OccursAtIgnoreCase(s, alts[k], at)
               /\ (bounded => WordBoundary(s, at + Len(alts[k])))}
  IN IF ok = {} THEN 0 ELSE CHOOSE k \in ok : \A j \in ok : k <= j

\* /\b(component|function|...|layout)\b/gi tried at i: the position after
\* the match, 0 when it does not match.
codeTermAt(s, i) ==
  LET k == FirstAlternative(s, codeTermWords, i, TRUE)
  IN IF WordBoundary(s, i) /\ k # 0 THEN i + Len(codeTermWords[k]) ELSE 0

\* /[\w-]+\.(ts|tsx|js|jsx|css|json|py)/gi tried at i.  The run [\w-]+ cannot
\* give a character back, since "." is not in [\w-].
fileRefAt(s, i) ==
  LET run == RunLen(s, WordOrDash, i)
      dot == i + run
      k   == FirstAlternative(s, fileExtensions, dot + 1, FALSE)
  IN IF run >= 1 /\ dot <= Len(s) /\ s[dot] = "." /\ k # 0
     THEN dot + 1 + Len(fileExtensions[k]) ELSE 0

\* The humps [A-Z][a-z]+ that follow one another from position i: the
\* position after the last of them and their number.
RECURSIVE Humps(_, _)
Humps(s, i) ==
  LET run == RunLen(s, Lower, i + 1)
  IN IF i <= Len(s) /\ s[i] \in Upper /\ run >= 1
     THEN LET rest == Humps(s, i + 1 + run) IN <<rest[1], rest[2] + 1>>
     ELSE <<i, 0>>

\* /\b[A-Z][a-z]+(?:[A-Z][a-z]+)+\b/g tried at i.  No shorter sequence of
\* humps can end at a word boundary, so only the longest one can match.
camelCaseAt(s, i) ==
  LET h == Humps(s, i)
  IN IF WordBoundary(s, i) /\ h[2] >= 2 /\ WordBoundary(s, h[1]) THEN h[1] ELSE 0

\* message.match(re) || [] for a global regular expression whose match at
\* position i ends before At(message, i): the matched texts, left to right.
RECURSIVE MatchAll(_, _, _)
MatchAll(s, At(_, _), from) ==
  LET starts == {i \in from..Len(s) : At(s, i) # 0}
      i == CHOOSE x \in starts : \A y \in starts : x <= y
  IN IF starts = {} THEN <<>>
     ELSE <<Sub(s, i, At(s, i) - 1)>> \o MatchAll(s, At, At(s, i))

\* [...new Set(xs)]: the distinct elements in the order of first occurrence.
RECURSIVE Dedupe(_)
Dedupe(xs) ==
  IF Len(xs) = 0 THEN <<>>
  ELSE LET init == Dedupe(SliceButLast(xs))
           last == xs[Len(xs)]
       IN IF \E k \in 1..Len(init) : init[k] = last THEN init ELSE Append(init, last)

\* xs.slice(0, n)
Take(xs, n) == Sub(xs, 1, IF Len(xs) < n THEN Len(xs) ELSE n)

\* The number of keywords extractKeywords keeps: slice(0, 3).
MaxKeywords == 3
\* The number of paths findRelevantFiles keeps: slice(0, 5).
MaxRelevant == 5

extractKeywords(message) ==
  LET codeTerms == MatchAll(message, codeTermAt, 1)
      fileRefs  == MatchAll(message, fileRefAt, 1)
      camelCase == MatchAll(message, camelCaseAt, 1)
  IN Take(Dedupe(codeTerms \o fileRefs \o camelCase), MaxKeywords)

\* arrays.flat()
RECURSIVE Flat(_)
Flat(xss) == IF Len(xss) = 0 THEN <<>> ELSE Head(xss) \o Flat(Tail(xss))

(***************************************************************************)
(* GitHubClient.updateFile and applyStrReplace (src/src/lib/github.ts)     *)
(***************************************************************************)
VARIABLES
  edit         \* the running call of applyStrReplace, or its returned value

\* "sha" left undefined in a call of updateFile.
NoSha == <<"undefined">>

\* A remote that replaces an existing file under any sha, as a git ref
\* updated by force would: the variant of updateAccepted that C4 is tested
\* against.
updateAcceptedUnchecked(path, sha) ==
  /\ branchLive
  /\ IF path \in DOMAIN remote THEN sha # NoSha ELSE sha = NoSha

\* createOrUpdateFileContents, as the contents API decides it: the branch
\* exists; a file that exists is replaced only under the sha of its current
\* blob, and a file is created only where none exists and no sha is given.
updateAccepted(path, sha) ==
  /\ branchLive
  /\ IF path \in DOMAIN remote THEN sha = blobSha(remote[path]) ELSE sha = NoSha

\* The text with which the contents API rejects an update.
updateRejection(path) ==
  IF ~branchLive THEN "Branch not found"
  ELSE IF path \in DOMAIN remote THEN "Conflict"
  ELSE "Not Found"

\* The remote after an accepted updateFile(path, content, message, branch, sha).
updatedRemote(path, content) ==
  [q \in DOMAIN remote \cup {path} |-> IF q = path THEN content ELSE remote[q]]

\* file.content.split(oldStr).length - 1 (line 231)
occurrences(content, oldStr) == Len(Split(content, oldStr)) - 1

\* The error texts of applyStrReplace and of the remote's rejections; a text
\* is kept as its kind and the values interpolated into it.
errNotFound(path) == <<"String not found in", path>>
errAmbiguous(n, path) == <<"String found n times in", n, path>>
errRemote(what, path) == <<what, path>>

\* What applyStrReplace does with a fetched file (lines 224-240): the value
\* it returns at once, or the content it goes on to write.
strReplaceDecision(file, oldStr, newStr) ==
  IF ~Includes(file.content, oldStr)
  THEN [write |-> FALSE, result |-> [success |-> FALSE, error |-> errNotFound(file.path)]]
  ELSE IF occurrences(file.content, oldStr) > 1
  THEN [write |-> FALSE,
        result |-> [success |-> FALSE,
                    error |-> errAmbiguous(occurrences(file.content, oldStr), file.path)]]
  ELSE [write |-> TRUE, newContent |-> Replace(file.content, oldStr, newStr)]

\* The sha applyStrReplace hands to updateFile: that of the file it fetched
\* (line 240).
strReplaceSha(file) == file.sha

\* No call of applyStrReplace is running.
NoEdit == [st |-> "none"]

\* applyStrReplace(path, oldStr, newStr, branch) up to its first await: the
\* fetch of the file is issued (line 222).
applyStrReplaceCall(path, oldStr, newStr) ==
  [st |-> "fetch", path |-> path, oldStr |-> oldStr, newStr |-> newStr]

\* An applyStrReplace that writes the replaced content before it returns
\* the failure of a check.
ApplyStrReplaceFetchedWrites ==
  /\ edit.st = "fetch"
  /\ edit.path \in DOMAIN remote
  /\ LET file == RepoFile(edit.path)
         d == strReplaceDecision(file, edit.oldStr, edit.newStr)
     IN IF d.write
        THEN /\ edit' = [edit EXCEPT !.st = "write"] @@
                        [file |-> file, newContent |-> d.newContent, sha |-> strReplaceSha(file)]
             /\ UNCHANGED remote
        ELSE /\ edit' = [edit EXCEPT !.st = "returned"] @@ [result |-> d.result]
             /\ remote' = updatedRemote(edit.path, Replace(file.content, edit.oldStr, edit.newStr))
  /\ UNCHANGED <<faults, extWrites, branchLive>>

\* The fetch resolves: the checks run and either a failure is returned or
\* the write is issued (lines 222-240).
ApplyStrReplaceFetched ==
  /\ edit.st = "fetch"
  /\ edit.path \in DOMAIN remote
  /\ LET file == RepoFile(edit.path)
         d == strReplaceDecision(file, edit.oldStr, edit.newStr)
     IN edit' = IF d.write
                THEN [edit EXCEPT !.st = "write"] @@
                     [file |-> file, newContent |-> d.newContent, sha |-> strReplaceSha(file)]
                ELSE [edit EXCEPT !.st = "returned"] @@ [result |-> d.result]
  /\ UNCHANGED <<remote, faults, extWrites, branchLive>>

\* The fetch rejects, no file being at the path; the catch block returns the
\* error (lines 243-245).
ApplyStrReplaceFetchNotFound ==
  /\ edit.st = "fetch"
  /\ edit.path \notin DOMAIN remote
  /\ edit' = [edit EXCEPT !.st = "returned"] @@
             [result |-> [success |-> FALSE, error |-> errRemote("Not Found", edit.path)]]
  /\ UNCHANGED <<remote, faults, extWrites, branchLive>>

\* The fetch or the write rejects, the remote being unavailable.
ApplyStrReplaceUnavailable ==
  /\ edit.st \in {"fetch", "write"}
  /\ faults < MaxFaults
  /\ faults' = faults + 1
  /\ edit' = [edit EXCEPT !.st = "returned"] @@
             [result |-> [success |-> FALSE, error |-> errRemote("Unavailable", edit.path)]]
  /\ UNCHANGED <<remote, extWrites, branchLive>>

\* The write is accepted by the remote and success is returned
\* (lines 240-242).
ApplyStrReplaceWritten ==
  /\ edit.st = "write"
  /\ updateAccepted(edit.path, edit.sha)
  /\ remote' = updatedRemote(edit.path, edit.newContent)
  /\ edit' = [edit EXCEPT !.st = "returned"] @@
             [result |-> [success |-> TRUE]]
  /\ UNCHANGED <<faults, extWrites, branchLive>>

\* The write is rejected by the remote, the sha not being that of the
\* current blob or the file or the branch being gone; the catch block
\* returns the error (lines 243-245).
ApplyStrReplaceConflict ==
  /\ edit.st = "write"
  /\ ~updateAccepted(edit.path, edit.sha)
  /\ edit' = [edit EXCEPT !.st = "returned"] @@
             [result |-> [success |-> FALSE,
                          error |-> errRemote(updateRejection(edit.path), edit.path)]]
  /\ UNCHANGED <<remote, faults, extWrites, branchLive>>

\* Bound of the model: the number of changes other clients make to the
\* remote in one run.
MaxExtWrites == 1

\* Another client's updateFile(path, content, message, branch, sha) is
\* accepted (lines 196-212): it creates the file, giving no sha, or replaces
\* its content under the sha of the current blob.
ExternalWrite(path, content) ==
  /\ extWrites < MaxExtWrites
  /\ branchLive
  /\ path \in DOMAIN remote => remote[path] # content
  /\ remote' = updatedRemote(path, content)
  /\ extWrites' = extWrites + 1
  /\ UNCHANGED <<faults, branchLive>>

\* A path a merged pull request removes.
Removed == <<"removed">>

\* The files of the branch after a pull request into it is merged: changes
\* maps each path the pull request touches to its new content or to Removed.
mergedRemote(changes) ==
  [q \in (DOMAIN remote \cup DOMAIN changes) \ {p \in DOMAIN changes : changes[p] = Removed}
     |-> IF q \in DOMAIN changes THEN changes[q] ELSE remote[q]]

\* Another client's mergePullRequest(prNumber) resolves, the branch being
\* the base of the pull request (lines 268-274).
MergePullRequest(changes) ==
  /\ extWrites < MaxExtWrites
  /\ branchLive
  /\ mergedRemote(changes) # remote
  /\ remote' = mergedRemote(changes)
  /\ extWrites' = extWrites + 1
  /\ UNCHANGED <<faults, branchLive>>

\* Another client's deleteBranch(branch) resolves (lines 277-283): no file
\* is left to fetch and every update is rejected.
DeleteBranch ==
  /\ extWrites < MaxExtWrites
  /\ branchLive
  /\ remote' = [q \in {} |-> <<>>]
  /\ branchLive' = FALSE
  /\ extWrites' = extWrites + 1
  /\ UNCHANGED faults

\* Another client's createBranch(branchName, fromBranch) resolves
\* (src/src/lib/github.ts, lines 172-193), branchName being the branch of the
\* requests: createRef is rejected while that branch exists, so this follows
\* a deletion, and the branch then holds the files of fromBranch.
CreateBranch(fromFiles) ==
  /\ ~branchLive
  /\ remote' = fromFiles
  /\ branchLive' = TRUE
  /\ extWrites' = extWrites + 1
  /\ UNCHANGED faults

(***************************************************************************)
(* The numbers of JavaScript: the costs of ClaudeClient are computed in    *)
(* binary floating point (src/src/app/api/github/route.ts, lines 158-173). *)
(***************************************************************************)
\* A whole number of any size is the sequence of its digits to the base 2^10,
\* the lowest first and the highest not zero; the whole numbers of TLC end at
\* 2^31.
LimbBits == 10
Base == 2^LimbBits

\* The digits of n.
RECURSIVE natOf(_)
natOf(n) == IF n = 0 THEN <<>> ELSE <<n % Base>> \o natOf(n \div Base)

\* The number whose digits are a, when it is below 2^31.
RECURSIVE intOf(_)
intOf(a) == IF a = <<>> THEN 0 ELSE a[1] + Base * intOf(Tail(a))

\* a without the zero digits at its top.
RECURSIVE trimNat(_)
trimNat(a) ==
  IF a = <<>> \/ a[Len(a)] # 0 THEN a ELSE trimNat(SubSeq(a, 1, Len(a) - 1))

limbAt(a, i) == IF i <= Len(a) THEN a[i] ELSE 0

zeroLimbs(n) == [i \in 1..n |-> 0]

\* a + b
RECURSIVE addNatFrom(_, _, _, _)
addNatFrom(a, b, i, carry) ==
  IF i > Len(a) /\ i > Len(b)
  THEN natOf(carry)
  ELSE LET s == limbAt(a, i) + limbAt(b, i) + carry
       IN <<s % Base>> \o addNatFrom(a, b, i + 1, s \div Base)

addNat(a, b) == addNatFrom(a, b, 1, 0)

\* a * k, for k up to 2^20
RECURSIVE timesSmallFrom(_, _, _, _)
timesSmallFrom(a, k, i, carry) ==
  IF i > Len(a)
  THEN natOf(carry)
  ELSE LET s == a[i] * k + carry
       IN <<s % Base>> \o timesSmallFrom(a, k, i + 1, s \div Base)

timesSmall(a, k) == IF k = 0 THEN <<>> ELSE timesSmallFrom(a, k, 1, 0)

\* a * b
RECURSIVE mulNat(_, _)
mulNat(a, b) ==
  IF a = <<>> \/ b = <<>> THEN <<>>
  ELSE addNat(timesSmall(a, b[1]), <<0>> \o mulNat(a, Tail(b)))

\* The quotient and the remainder of a by d, for d up to 2^20.
RECURSIVE divSmallFrom(_, _, _, _)
divSmallFrom(a, d, i, r) ==
  IF i = 0
  THEN [q |-> <<>>, r |-> r]
  ELSE LET n == r * Base + a[i]
           rest == divSmallFrom(a, d, i - 1, n % d)
       IN [q |-> Append(rest.q, n \div d), r |-> rest.r]

\* res with its quotient trimmed.
trimQuotient(res) == [q |-> trimNat(res.q), r |-> res.r]

divSmall(a, d) == trimQuotient(divSmallFrom(a, d, Len(a), 0))

\* The number of binary digits of a.
bitLength(a) ==
  IF a = <<>> THEN 0
  ELSE LimbBits * (Len(a) - 1)
       + (CHOOSE k \in 1..LimbBits : 2^(k - 1) <= a[Len(a)] /\ a[Len(a)] < 2^k)

\* a * 2^k
shiftLeft(a, k) ==
  IF a = <<>> THEN <<>>
  ELSE zeroLimbs(k \div LimbBits) \o timesSmall(a, 2^(k % LimbBits))

\* a \div 2^k, and whether a binary digit that was dropped is 1.
\* res is what is left of a without its n lowest digits.
shiftedBy(a, n, res) ==
  [q |-> res.q, inexact |-> res.r # 0 \/ \E i \in 1..n : limbAt(a, i) # 0]

shiftRight(a, k) ==
  shiftedBy(a, k \div LimbBits,
            divSmall(SubSeq(a, k \div LimbBits + 1, Len(a)), 2^(k % LimbBits)))

\* A JavaScript number (IEEE-754 binary64) that is zero or positive and
\* finite is m * 2^e: [m |-> the digits of m, e |-> e], with m odd, or zeroD.
\* Equal numbers have equal records.
zeroD == [m |-> <<>>, e |-> 0]

\* The number of zero binary digits at the bottom of a, a being not zero.
trailingZeros(a) ==
  LET n == CHOOSE i \in 1..Len(a) : a[i] # 0 /\ \A j \in 1..(i - 1) : a[j] = 0
      t == CHOOSE k \in 0..(LimbBits - 1) : a[n] % 2^k = 0 /\ a[n] % 2^(k + 1) # 0
  IN LimbBits * (n - 1) + t

\* The record of m * 2^e, exactly.
\* m * 2^e, the t zero digits at the bottom of m moved into the exponent.
oddD(m, e, t) == [m |-> shiftRight(m, t).q, e |-> e + t]

canonD(m, e) == IF m = <<>> THEN zeroD ELSE oddD(m, e, trailingZeros(m))

\* The significand of a binary64 number has 53 binary digits.
MantissaBits == 53

\* The binary64 number nearest to a * 2^e (to a value slightly above it when
\* inexact), ties going to the even significand: the rounding of every
\* arithmetic operation of JavaScript.
\* upper is the number without all but one of the binary digits it loses and
\* kept is it without all of them: kept goes up when the last digit lost is
\* 1 and a lower one is too, or kept is odd.
roundKept(upper, kept, inexact) ==
  IF upper.q[1] % 2 = 1 /\ (inexact \/ upper.inexact \/ kept[1] % 2 = 1)
  THEN addNat(kept, <<1>>)
  ELSE kept

roundUpper(upper, inexact) == roundKept(upper, shiftRight(upper.q, 1).q, inexact)

\* drop is the number of binary digits a has beyond the significand.
roundBits(a, e, inexact, drop) ==
  canonD(IF drop <= 0 THEN a ELSE roundUpper(shiftRight(a, drop - 1), inexact),
         IF drop <= 0 THEN e ELSE e + drop)

roundD(a, e, inexact) == roundBits(a, e, inexact, bitLength(a) - MantissaBits)

\* The number n, a whole number below 2^31.
toDouble(n) == canonD(natOf(n), 0)

\* x * y of JavaScript
mulD(x, y) == roundD(mulNat(x.m, y.m), x.e + y.e, FALSE)

\* Binary digits computed beyond the significand before a quotient is rounded.
GuardBits == 3

\* x / y of JavaScript, for y with a significand below 2^20
roundQuotient(res, e) == roundD(res.q, e, res.r # 0)

\* x / y with s binary digits of x * 2^s / y computed.
divBits(x, y, s) == roundQuotient(divSmall(shiftLeft(x.m, s), intOf(y.m)), x.e - s - y.e)

divD(x, y) ==
  IF x.m = <<>> THEN zeroD
  ELSE divBits(x, y, MantissaBits + GuardBits + bitLength(y.m))

\* x + y of JavaScript, computed
plusD(x, y) ==
  IF x.m = <<>> THEN y
  ELSE IF y.m = <<>> THEN x
  ELSE LET e == IF x.e < y.e THEN x.e ELSE y.e
       IN roundD(addNat(shiftLeft(x.m, x.e - e), shiftLeft(y.m, y.e - e)), e, FALSE)

\* a < b
RECURSIVE lessNatFrom(_, _, _)
lessNatFrom(a, b, i) ==
  IF i = 0 THEN FALSE
  ELSE IF a[i] # b[i] THEN a[i] < b[i]
  ELSE lessNatFrom(a, b, i - 1)

lessNat(a, b) ==
  IF Len(a) # Len(b) THEN Len(a) < Len(b) ELSE lessNatFrom(a, b, Len(a))

\* x < y of JavaScript
lessD(x, y) ==
  IF y.m = <<>> THEN FALSE
  ELSE IF x.m = <<>> THEN TRUE
  ELSE LET e == IF x.e < y.e THEN x.e ELSE y.e
       IN lessNat(shiftLeft(x.m, x.e - e), shiftLeft(y.m, y.e - e))

\* The whole number nearest to x * k (halves go up), for x * k below 2^31.
nearestOfTimes(x, k) ==
  LET p == mulNat(x.m, natOf(k))
  IN IF x.e >= 0 THEN intOf(shiftLeft(p, x.e))
     ELSE LET h == shiftRight(p, (0 - x.e) - 1).q
          IN intOf(shiftRight(h, 1).q) + (limbAt(h, 1) % 2)

(***************************************************************************)
(* ClaudeClient: cost tracker and chat (src/src/app/api/github/route.ts)   *)
(***************************************************************************)
VARIABLES
  costTracker, \* this.costTracker; its field tokensUsed is a reference into heap
  heap,        \* the tokensUsed objects allocated so far, by reference
  modelCalls,  \* the requests sent to the model (client.messages.create), in order
  snapshot     \* the object a caller got from getCostTracker(), or None

claudeVars == <<costTracker, heap, modelCalls, snapshot>>

\* A value that is not there yet.
None == <<>>

\* PRICING['claude-sonnet-4-5-20250929'], the default model, in dollars per
\* million tokens: the digits of each literal, which are hundredths of a
\* dollar.
priceInput      == 300
priceOutput     == 1500
priceCacheWrite == 375
priceCacheRead  == 30

\* The value of a price literal: the binary64 number nearest to
\* hundredths / 100, which 3.00, 15.00 and 3.75 are exactly and 0.30 is not.
literal(hundredths) == divD(toDouble(hundredths), toDouble(100))

\* const pricing = PRICING[this.model] (line 159)
priceDigits ==
  [input |-> priceInput, output |-> priceOutput,
   cacheWrite |-> priceCacheWrite, cacheRead |-> priceCacheRead]
pricing == [kind \in DOMAIN priceDigits |-> literal(priceDigits[kind])]

\* 1_000_000
million == toDouble(1000000)

\* (tokens || 0) * price / 1_000_000, evaluated from the left (lines 160-163)
tokenCost(tokens, price) == divD(mulD(toDouble(tokens), price), million)

\* The four costs of lines 160-163, in the order line 165 adds them.
tokenCosts(usage, prices) ==
  LET tokens == <<usage.input_tokens, usage.output_tokens,
                  usage.cache_creation_input_tokens, usage.cache_read_input_tokens>>
      price  == <<prices.input, prices.output, prices.cacheWrite, prices.cacheRead>>
  IN [i \in 1..4 |-> tokenCost(tokens[i], price[i])]

\* costs[1] + costs[2] + ... of JavaScript: added from the left, every
\* addition rounding its result.
RECURSIVE sumD(_)
sumD(costs) ==
  IF Len(costs) = 1 THEN costs[1]
  ELSE plusD(sumD(SubSeq(costs, 1, Len(costs) - 1)), costs[Len(costs)])

\* The body of calculateCost (lines 159-165).
calculateCostBody(usage) == sumD(tokenCosts(usage, pricing))

\* A calculateCost that charges every call one input token more.
calculateCostPerCall(usage) ==
  calculateCostBody([usage EXCEPT !.input_tokens = @ + 1])

\* The usages the model reports in this development.
usageA     == [input_tokens |-> 5, output_tokens |-> 2,
               cache_read_input_tokens |-> 0, cache_creation_input_tokens |-> 0]
usageB     == [input_tokens |-> 3, output_tokens |-> 1,
               cache_read_input_tokens |-> 4, cache_creation_input_tokens |-> 6]
usageSmall == [input_tokens |-> 3, output_tokens |-> 1,
               cache_read_input_tokens |-> 0, cache_creation_input_tokens |-> 0]
usageSum   == [input_tokens |-> 8, output_tokens |-> 3,
               cache_read_input_tokens |-> 0, cache_creation_input_tokens |-> 0]

\* calculateCost and + are functions of their arguments: what they return
\* for these usages, and for two of their costs, is computed once and looked
\* up afterwards.
knownUsages == {usageA, usageB, usageSmall, usageSum}
knownCosts == [u \in knownUsages |-> calculateCostBody(u)]
sumsOf(costs) == [p \in costs \X costs |-> plusD(p[1], p[2])]
knownSums == sumsOf({knownCosts[u] : u \in knownUsages})

\* table[key] when the table has it, and computed when it has not.
known(table, key, computed) == IF key \in DOMAIN table THEN table[key] ELSE computed

\* x + y of JavaScript
addD(x, y) == known(knownSums, <<x, y>>, plusD(x, y))

\* calculateCost(usage) (lines 158-166)
calculateCost(usage) == known(knownCosts, usage, calculateCostBody(usage))

zeroTokens == [input |-> 0, output |-> 0, cacheRead |-> 0, cacheWrite |-> 0]

\* The constructor's costTracker (lines 149-154): the first tokensUsed object
\* is allocated at reference 1.
newCostTracker ==
  [sessionCost |-> zeroD, dailyCost |-> zeroD, monthlyCost |-> zeroD, tokensUsed |-> 1]
newHeap == <<zeroTokens>>

\* An updateCostTracker that leaves dailyCost and monthlyCost alone.
recordUsageSessionOnly(ct, hp, usage) ==
  [ct |-> [ct EXCEPT !.sessionCost = addD(@, calculateCost(usage))],
   hp |-> [hp EXCEPT ![ct.tokensUsed] =
             [input      |-> @.input + usage.input_tokens,
              output     |-> @.output + usage.output_tokens,
              cacheRead  |-> @.cacheRead + usage.cache_read_input_tokens,
              cacheWrite |-> @.cacheWrite + usage.cache_creation_input_tokens]]]

\* updateCostTracker(usage) (lines 169-179) on the tracker ct and the heap
\* hp: the three costs are assigned in the tracker, the four counters in the
\* object tokensUsed refers to.
recordUsage(ct, hp, usage) ==
  LET cost == calculateCost(usage)
  IN [ct |-> [ct EXCEPT !.sessionCost = addD(@, cost),
                        !.dailyCost   = addD(@, cost),
                        !.monthlyCost = addD(@, cost)],
      hp |-> [hp EXCEPT ![ct.tokensUsed] =
                [input      |-> @.input + usage.input_tokens,
                 output     |-> @.output + usage.output_tokens,
                 cacheRead  |-> @.cacheRead + usage.cache_read_input_tokens,
                 cacheWrite |-> @.cacheWrite + usage.cache_creation_input_tokens]]]

\* this.updateCostTracker(usage): the cost tracker and the heap after it.
updateCostTracker(usage) ==
  LET after == recordUsage(costTracker, heap, usage)
  IN costTracker' = after.ct /\ heap' = after.hp

\* getCostTracker() (lines 181-183): the spread copies the four fields of
\* this.costTracker into a new object, the reference tokensUsed as it is.
getCostTracker ==
  [sessionCost |-> costTracker.sessionCost, dailyCost |-> costTracker.dailyCost,
   monthlyCost |-> costTracker.monthlyCost, tokensUsed |-> costTracker.tokensUsed]

\* A caller takes a snapshot of the ledger and keeps it.
GetCostTracker ==
  /\ snapshot = None
  /\ snapshot' = getCostTracker
  /\ UNCHANGED <<costTracker, heap, modelCalls>>

\* The caller changes the snapshot it holds: it sets the three costs and
\* the four counters of the object to n.
SnapshotAssigned(n) ==
  /\ snapshot # None
  /\ snapshot' = [snapshot EXCEPT !.sessionCost = toDouble(n), !.dailyCost = toDouble(n),
                                  !.monthlyCost = toDouble(n)]
  /\ heap' = [heap EXCEPT ![snapshot.tokensUsed] =
                 [input |-> n, output |-> n, cacheRead |-> n, cacheWrite |-> n]]
  /\ UNCHANGED <<costTracker, modelCalls>>

\* Bounds of the model: the requests sent to the model and the session
\* resets made on one ClaudeClient.
MaxRounds == 2
MaxResets == 2

\* chat(messages, systemPrompt, codeContext) up to its await (lines 191-222):
\* the request is with the model and the promise of client.messages.create
\* has not settled.
chatCall(messages, context) ==
  Append(modelCalls, [messages |-> messages, codeContext |-> context, st |-> "sent"])

\* The promise of request i has settled: st is "resolved" or "rejected".
chatSettled(i, st) == [modelCalls EXCEPT ![i].st = st]

\* chat is called on a client used outside a turn.
Chat(messages, context) ==
  /\ Len(modelCalls) < MaxRounds
  /\ modelCalls' = chatCall(messages, context)
  /\ UNCHANGED <<costTracker, heap, snapshot>>

\* client.messages.create resolves for request i with usage, and
\* updateCostTracker records it (lines 202-224).
ChatResolved(i, usage) ==
  /\ i \in 1..Len(modelCalls)
  /\ modelCalls[i].st = "sent"
  /\ modelCalls' = chatSettled(i, "resolved")
  /\ updateCostTracker(usage)
  /\ UNCHANGED snapshot

\* client.messages.create rejects for request i: chat throws and nothing is
\* recorded (line 202).
ChatThrows(i) ==
  /\ i \in 1..Len(modelCalls)
  /\ modelCalls[i].st = "sent"
  /\ modelCalls' = chatSettled(i, "rejected")
  /\ UNCHANGED <<costTracker, heap, snapshot>>

\* A resetSessionCost that zeroes the daily total too.
resetSessionCostAll ==
  /\ Len(heap) <= MaxResets
  /\ costTracker' = [costTracker EXCEPT !.sessionCost = zeroD, !.dailyCost = zeroD,
                                        !.tokensUsed = Len(heap) + 1]
  /\ heap' = Append(heap, zeroTokens)
  /\ UNCHANGED snapshot
  /\ UNCHANGED modelCalls

\* resetSessionCost() (lines 185-188): sessionCost is zeroed and tokensUsed
\* is made to refer to a new object of zero counters.
resetSessionCost ==
  /\ Len(heap) <= MaxResets
  /\ costTracker' = [costTracker EXCEPT !.sessionCost = zeroD, !.tokensUsed = Len(heap) + 1]
  /\ heap' = Append(heap, zeroTokens)
  /\ UNCHANGED snapshot
  /\ UNCHANGED modelCalls

\* JSON.stringify of getCostTracker(), as NextResponse.json writes it into a
\* response: the tracker's fields with the token counters it refers to.
costTrackerJson(ct, hp) ==
  [sessionCost |-> ct.sessionCost, dailyCost |-> ct.dailyCost,
   monthlyCost |-> ct.monthlyCost, tokensUsed |-> hp[ct.tokensUsed]]

\* What chat returns for a response of the model (lines 226-247): the text,
\* the tool calls (undefined, here <<>>, when there is none), usage and cost.
chatResult(resp) ==
  [content |-> resp.content, toolCalls |-> resp.toolCalls,
   usage |-> resp.usage, cost |-> calculateCost(resp.usage)]

(***************************************************************************)
(* POST, findRelevantFiles and executeToolCall                             *)
(* (src/src/app/api/chat/route.ts)                                         *)
(***************************************************************************)
VARIABLES
  pc,           \* where the handler POST is
  request,      \* the request body
  searches,     \* findRelevantFiles: per keyword, "pending" or the search result
  codeContext,  \* generateCodeContext(fileTreeStr, files)
  round1,       \* response: what the first claude.chat returned
  toolResults,  \* let toolResults
  filesChanged, \* let filesChanged
  callIdx,      \* the index of "call" in the loop over response.toolCalls
  exec,         \* the remote operation executeToolCall is waiting for
  response      \* the HTTP response of the handler

turnVars == <<pc, request, searches, codeContext, round1, toolResults,
              filesChanged, callIdx, exec, response>>

vars == <<remoteVars, loaderVars, edit, claudeVars, turnVars>>

\* The maxDepth POST passes to getFilesWithImports (line 44).
postMaxDepth == 2

jsonError(status, msg) == [status |-> status, error |-> msg]

\* The messages of the first round (lines 50-53), the history being empty.
messagesOf(req) == <<[role |-> "user", content |-> req.message]>>

\* A summary line that reports every call as a success.
toolResultLineSuccess(call, r) == <<"Tool", call.name, "Success">>

\* One line of toolResultsMessage (lines 81-83).
toolResultLine(call, r) ==
  IF r.success THEN <<"Tool", call.name, "Success">>
  ELSE <<"Tool", call.name, "Failed - ", r.error>>

\* The messages of the follow-up round (lines 86-90).
followUpMessages(req, resp, results) ==
  messagesOf(req) \o
  << [role |-> "assistant", content |-> resp.content],
     [role |-> "user",
      content |-> <<"Tool results:",
                    [i \in 1..Len(results) |-> toolResultLine(resp.toolCalls[i], results[i])],
                    "Please summarize what was done.">>] >>

\* The keyword searches of findRelevantFiles, all issued at once (lines 141-143).
findRelevantFilesCall(message) ==
  [k \in 1..Len(extractKeywords(message)) |-> [st |-> "pending", paths |-> <<>>]]

\* searchResults.flat() once every search has settled.
searchResultsFlat(ss) == Flat([k \in 1..Len(ss) |-> ss[k].paths])

\* A findRelevantFiles that truncates the flattened results without
\* removing duplicates.
relevantPathsNoDedupe(ss) == Take(searchResultsFlat(ss), MaxRelevant)

\* findRelevantFiles' return value once every search has settled
\* (lines 146-149).
relevantPaths(ss) == Take(Dedupe(searchResultsFlat(ss)), MaxRelevant)

\* POST up to its first await on a remote operation (lines 6-37): the
\* session is validated, the clients are made and the tree fetch is issued.
Post(req) ==
  /\ pc = "idle"
  /\ request' = req
  /\ costTracker' = newCostTracker
  /\ heap' = newHeap
  /\ UNCHANGED snapshot
  /\ IF ~req.anthropicKey
     THEN pc' = "responded" /\ response' = jsonError(400, "Anthropic API key required")
     ELSE IF ~req.githubToken
     THEN pc' = "responded" /\ response' = jsonError(400, "GitHub token required")
     ELSE IF ~req.repo
     THEN pc' = "responded" /\ response' = jsonError(400, "Repository not selected")
     ELSE pc' = "tree" /\ response' = None
  /\ UNCHANGED <<remoteVars, loaderVars, edit, modelCalls, searches, codeContext,
                 round1, toolResults, filesChanged, callIdx, exec>>

\* getFileTree rejects; nothing catches it before the handler's own catch
\* block, which answers 500 (lines 37, 123-128).
FileTreeRejected ==
  /\ pc = "tree"
  /\ faults < MaxFaults
  /\ faults' = faults + 1
  /\ pc' = "responded"
  /\ response' = jsonError(500, "getFileTree failed")
  /\ UNCHANGED <<remote, extWrites, branchLive, loaderVars, edit, claudeVars, request, searches,
                 codeContext, round1, toolResults, filesChanged, callIdx, exec>>

\* getFileTree resolves and findRelevantFiles runs up to its await
\* (lines 37-41, 134-143): without keywords it returns [] and
\* getFilesWithImports is called with no entry path.
FileTreeResolved ==
  /\ pc = "tree"
  /\ searches' = findRelevantFilesCall(request.message)
  /\ IF Len(searches') = 0
     THEN /\ pc' = "load"
          /\ getFilesWithImportsCall(<<>>, postMaxDepth)
     ELSE /\ pc' = "search"
          /\ UNCHANGED loaderVars
  /\ UNCHANGED remoteVars
  /\ UNCHANGED <<edit, claudeVars, request, codeContext, round1, toolResults,
                 filesChanged, callIdx, exec, response>>

\* What follows the settling of keyword search i with result paths: when it
\* was the last one pending, findRelevantFiles returns and
\* getFilesWithImports is called (lines 41-44, 146-149).
searchSettled(i, paths) ==
  /\ pc = "search"
  /\ i \in 1..Len(searches)
  /\ searches[i].st = "pending"
  /\ LET settled == [searches EXCEPT ![i] = [st |-> "settled", paths |-> paths]]
     IN IF \A k \in 1..Len(settled) : settled[k].st # "pending"
        THEN /\ pc' = "load"
             /\ searches' = settled
             /\ getFilesWithImportsCall(relevantPaths(settled), postMaxDepth)
        ELSE /\ pc' = "search"
             /\ searches' = settled
             /\ UNCHANGED loaderVars
  /\ UNCHANGED <<remote, extWrites, branchLive, edit, claudeVars, request, codeContext, round1,
                 toolResults, filesChanged, callIdx, exec, response>>

\* github.searchFiles(k) resolves with the paths the code search found.
SearchResolved(i, paths) ==
  /\ searchSettled(i, paths)
  /\ UNCHANGED faults

\* A findRelevantFiles without the catch of line 142: the rejection of one
\* search rejects Promise.all and the handler answers 500.
SearchRejectedFatal(i) ==
  /\ pc = "search"
  /\ i \in 1..Len(searches)
  /\ searches[i].st = "pending"
  /\ faults < MaxFaults
  /\ faults' = faults + 1
  /\ pc' = "responded"
  /\ response' = jsonError(500, "searchFiles failed")
  /\ UNCHANGED <<remote, extWrites, branchLive, loaderVars, edit, claudeVars, request, searches,
                 codeContext, round1, toolResults, filesChanged, callIdx, exec>>

\* github.searchFiles(k) rejects and .catch(() => []) makes it [] (line 142).
SearchRejected(i) ==
  /\ faults < MaxFaults
  /\ faults' = faults + 1
  /\ searchSettled(i, <<>>)

\* getFilesWithImports has returned: the context and the messages are built
\* and the first model round is issued (lines 44-60).  The locals of the
\* returned calls, of findRelevantFiles too, are gone.
PostLoaded ==
  /\ pc = "load"
  /\ glPc = "returned"
  /\ codeContext' = [tree |-> "fileTreeStr", files |-> files]
  /\ modelCalls' = chatCall(messagesOf(request), codeContext')
  /\ pc' = "chat1"
  /\ glPc' = "idle"
  /\ entryPaths' = <<>>
  /\ maxDepth' = 0
  /\ loaded' = {}
  /\ files' = <<>>
  /\ loads' = <<>>
  /\ searches' = <<>>
  /\ UNCHANGED <<remoteVars, edit, costTracker, heap, snapshot, request, round1,
                 toolResults, filesChanged, callIdx, exec, response>>

\* The handler's catch block after a rejected claude.chat (lines 123-128).
ChatRejected ==
  /\ pc \in {"chat1", "chat2"}
  /\ modelCalls' = chatSettled(Len(modelCalls), "rejected")
  /\ pc' = "responded"
  /\ response' = jsonError(500, "chat failed")
  /\ UNCHANGED <<remoteVars, loaderVars, edit, costTracker, heap, snapshot, request, searches,
                 codeContext, round1, toolResults, filesChanged, callIdx, exec>>

\* The body of a 200 response (lines 95-106 and 110-121).
jsonTurn(content, changed, cost, tokens, tracker) ==
  [status |-> 200, content |-> content, filesChanged |-> changed, cost |-> cost,
   tokensUsed |-> tokens, costTracker |-> tracker]

\* tokensUsed with the two cache counters taken from each other's field: the
\* variant of tokensOfOne that C6 is tested against.
tokensOfOneSwapped(u) ==
  [input |-> u.input_tokens, output |-> u.output_tokens,
   cacheRead |-> u.cache_creation_input_tokens,
   cacheWrite |-> u.cache_read_input_tokens]

\* tokensUsed of the response after one round (lines 114-119)
tokensOfOne(u) ==
  [input |-> u.input_tokens, output |-> u.output_tokens,
   cacheRead |-> u.cache_read_input_tokens,
   cacheWrite |-> u.cache_creation_input_tokens]

\* A tokensUsed after two rounds that counts the first round only.
tokensOfTwoFirstOnly(u, v) ==
  [input |-> u.input_tokens, output |-> u.output_tokens,
   cacheRead |-> u.cache_read_input_tokens,
   cacheWrite |-> u.cache_creation_input_tokens]

\* tokensUsed of the response after two rounds (lines 99-104)
tokensOfTwo(u, v) ==
  [input |-> u.input_tokens + v.input_tokens,
   output |-> u.output_tokens + v.output_tokens,
   cacheRead |-> u.cache_read_input_tokens + v.cache_read_input_tokens,
   cacheWrite |-> u.cache_creation_input_tokens + v.cache_creation_input_tokens]

\* The first claude.chat resolves with the model's response resp
\* (lines 56-66, 110-121): the cost tracker is updated; without tool calls
\* the handler answers, with tool calls the loop over them starts.
Chat1Resolved(resp) ==
  /\ pc = "chat1"
  /\ modelCalls' = chatSettled(Len(modelCalls), "resolved")
  /\ updateCostTracker(resp.usage)
  /\ UNCHANGED snapshot
  /\ round1' = chatResult(resp)
  /\ toolResults' = <<>>
  /\ filesChanged' = <<>>
  /\ IF Len(resp.toolCalls) = 0
     THEN /\ pc' = "responded"
          /\ response' = jsonTurn(round1'.content, filesChanged', round1'.cost,
                                  tokensOfOne(round1'.usage),
                                  costTrackerJson(costTracker', heap'))
          /\ UNCHANGED <<callIdx, exec>>
     ELSE /\ pc' = "tool"
          /\ callIdx' = 1
          /\ exec' = "start"
          /\ response' = None
  /\ UNCHANGED <<remoteVars, loaderVars, edit, request, searches, codeContext>>

\* A handler that runs the create_file calls of the second round's response
\* before it answers.
Chat2ResolvedDispatching(resp) ==
  /\ pc = "chat2"
  /\ modelCalls' = chatSettled(Len(modelCalls), "resolved")
  /\ updateCostTracker(resp.usage)
  /\ UNCHANGED snapshot
  /\ LET followUp == chatResult(resp)
     IN response' = jsonTurn(followUp.content, filesChanged,
                             addD(round1.cost, followUp.cost),
                             tokensOfTwo(round1.usage, followUp.usage),
                             costTrackerJson(costTracker', heap'))
  /\ pc' = "responded"
  /\ remote' = IF Len(resp.toolCalls) = 0 THEN remote
               ELSE updatedRemote(resp.toolCalls[1].input.path, resp.toolCalls[1].input.content)
  /\ UNCHANGED <<faults, extWrites, branchLive, loaderVars, edit, request, searches,
                 codeContext, round1, toolResults, filesChanged, callIdx, exec>>

\* The second claude.chat resolves (lines 85-106).
Chat2Resolved(resp) ==
  /\ pc = "chat2"
  /\ modelCalls' = chatSettled(Len(modelCalls), "resolved")
  /\ updateCostTracker(resp.usage)
  /\ UNCHANGED snapshot
  /\ LET followUp == chatResult(resp)
     IN response' = jsonTurn(followUp.content, filesChanged,
                             addD(round1.cost, followUp.cost),
                             tokensOfTwo(round1.usage, followUp.usage),
                             costTrackerJson(costTracker', heap'))
  /\ pc' = "responded"
  /\ UNCHANGED <<remoteVars, loaderVars, edit, request, searches,
                 codeContext, round1, toolResults, filesChanged, callIdx, exec>>

\* The tool names executeToolCall knows (the cases of its switch).
knownTools == {"read_file", "str_replace", "create_file", "search_files"}

\* The call the loop is at.
currentCall == round1.toolCalls[callIdx]

\* The entries pushed on filesChanged after call has returned r (lines 71-76).
fileChangeOf(call, r) ==
  IF call.name = "str_replace" \/ call.name = "create_file"
  THEN <<[path |-> call.input.path,
          action |-> IF call.name = "create_file" THEN "create" ELSE "edit"]>>
  ELSE <<>>

\* A loop that passes over every other call: the variant of nextCall that C7
\* is tested against.
nextCallSkipping(i) == i + 2

\* The index of the call the loop goes on with after call i.
nextCall(i) == i + 1

\* A loop that issues a model round after every tool call: the variant of
\* loopAfter that C5 is tested against.
loopAfterEager(r) ==
  /\ toolResults' = Append(toolResults, r)
  /\ filesChanged' = filesChanged \o fileChangeOf(currentCall, r)
  /\ callIdx' = nextCall(callIdx)
  /\ modelCalls' = chatCall(followUpMessages(request, round1, toolResults'), codeContext)
  /\ IF callIdx' <= Len(round1.toolCalls)
     THEN exec' = "start" /\ pc' = "tool"
     ELSE exec' = "none" /\ pc' = "chat2"

\* A loop that breaks at the first failed call: the variant of loopAfter that
\* C9 is tested against.
loopAfterAbort(r) ==
  /\ toolResults' = Append(toolResults, r)
  /\ filesChanged' = filesChanged \o fileChangeOf(currentCall, r)
  /\ callIdx' = nextCall(callIdx)
  /\ IF r.success /\ callIdx' <= Len(round1.toolCalls)
     THEN /\ exec' = "start"
          /\ pc' = "tool"
          /\ UNCHANGED modelCalls
     ELSE /\ exec' = "none"
          /\ pc' = "chat2"
          /\ modelCalls' = chatCall(followUpMessages(request, round1, toolResults'), codeContext)

\* The loop body after executeToolCall has returned r for the current call
\* (lines 69-77) and, after the last call, the issue of the follow-up round
\* (lines 80-93).
loopAfter(r) ==
  /\ toolResults' = Append(toolResults, r)
  /\ filesChanged' = filesChanged \o fileChangeOf(currentCall, r)
  /\ callIdx' = nextCall(callIdx)
  /\ IF callIdx' <= Len(round1.toolCalls)
     THEN /\ exec' = "start"
          /\ pc' = "tool"
          /\ UNCHANGED modelCalls
     ELSE /\ exec' = "none"
          /\ pc' = "chat2"
          /\ modelCalls' = chatCall(followUpMessages(request, round1, toolResults'), codeContext)

\* A default case that reports success: the variant of unknownToolResult
\* that C10 is tested against.
unknownToolResultOk(name) == [success |-> TRUE]

\* The default case of executeToolCall's switch (lines 205-206).
unknownToolResult(name) == [success |-> FALSE, error |-> <<"Unknown tool:", name>>]

\* executeToolCall(call) up to its first await (lines 173-207): the remote
\* operation of the tool is issued; an unknown name returns at once.
ToolDispatch ==
  /\ pc = "tool"
  /\ exec = "start"
  /\ IF currentCall.name \in knownTools
     THEN /\ exec' = CASE currentCall.name = "read_file"    -> "read"
                      [] currentCall.name = "str_replace"  -> "edit"
                      [] currentCall.name = "create_file"  -> "create"
                      [] currentCall.name = "search_files" -> "search"
          /\ edit' = IF currentCall.name = "str_replace"
                     THEN applyStrReplaceCall(currentCall.input.path,
                                              currentCall.input.old_str,
                                              currentCall.input.new_str)
                     ELSE edit
          /\ UNCHANGED <<pc, toolResults, filesChanged, callIdx, modelCalls>>
     ELSE /\ loopAfter(unknownToolResult(currentCall.name))
          /\ UNCHANGED edit
  /\ UNCHANGED <<remoteVars, loaderVars, costTracker, heap, snapshot, request, searches,
                 codeContext, round1, response>>

\* read_file: getFileContent resolves (lines 176-177).
ReadFileResolved ==
  /\ pc = "tool"
  /\ exec = "read"
  /\ currentCall.input.path \in DOMAIN remote
  /\ loopAfter([success |-> TRUE, result |-> RepoFile(currentCall.input.path).content])
  /\ UNCHANGED <<remoteVars, loaderVars, edit, costTracker, heap, snapshot, request, searches,
                 codeContext, round1, response>>

\* read_file: getFileContent rejects, no file being at the path (lines 208-210).
ReadFileNotFound ==
  /\ pc = "tool"
  /\ exec = "read"
  /\ currentCall.input.path \notin DOMAIN remote
  /\ loopAfter([success |-> FALSE, error |-> errRemote("Not Found", currentCall.input.path)])
  /\ UNCHANGED <<remoteVars, loaderVars, edit, costTracker, heap, snapshot, request, searches,
                 codeContext, round1, response>>

\* str_replace: applyStrReplace has returned and its value is the tool's
\* result (lines 181-187).
StrReplaceReturned ==
  /\ pc = "tool"
  /\ exec = "edit"
  /\ edit.st = "returned"
  /\ loopAfter(edit.result)
  /\ edit' = NoEdit
  /\ UNCHANGED <<remoteVars, loaderVars, costTracker, heap, snapshot, request, searches,
                 codeContext, round1, response>>

\* create_file: updateFile without sha is accepted (lines 191-197).
CreateFileWritten ==
  /\ pc = "tool"
  /\ exec = "create"
  /\ updateAccepted(currentCall.input.path, NoSha)
  /\ remote' = updatedRemote(currentCall.input.path, currentCall.input.content)
  /\ loopAfter([success |-> TRUE])
  /\ UNCHANGED <<faults, extWrites, branchLive, loaderVars, edit, costTracker, heap, snapshot, request,
                 searches, codeContext, round1, response>>

\* create_file: updateFile without sha is rejected, a file being at the path
\* or the branch being gone (lines 208-210).
CreateFileRejected ==
  /\ pc = "tool"
  /\ exec = "create"
  /\ ~updateAccepted(currentCall.input.path, NoSha)
  /\ loopAfter([success |-> FALSE,
                error |-> errRemote(IF branchLive THEN "sha wasn't supplied"
                                    ELSE "Branch not found", currentCall.input.path)])
  /\ UNCHANGED <<remoteVars, loaderVars, edit, costTracker, heap, snapshot, request, searches,
                 codeContext, round1, response>>

\* search_files: searchFiles resolves with the paths found (lines 201-202).
ToolSearchResolved(paths) ==
  /\ pc = "tool"
  /\ exec = "search"
  /\ loopAfter([success |-> TRUE, result |-> paths])
  /\ UNCHANGED <<remoteVars, loaderVars, edit, costTracker, heap, snapshot, request, searches,
                 codeContext, round1, response>>

\* The remote operation of read_file, create_file or search_files rejects,
\* the remote being unavailable (lines 208-210).
ToolUnavailable ==
  /\ pc = "tool"
  /\ exec \in {"read", "create", "search"}
  /\ faults < MaxFaults
  /\ faults' = faults + 1
  /\ loopAfter([success |-> FALSE, error |-> <<"Unavailable">>])
  /\ UNCHANGED <<remote, extWrites, branchLive, loaderVars, edit, costTracker, heap, snapshot, request,
                 searches, codeContext, round1, response>>

(***************************************************************************)
(* Inputs of the model.                                                    *)
(***************************************************************************)

\* The strings over alphabet of length at most n.
StringsUpTo(alphabet, n) == UNION {[1..k -> alphabet] : k \in 0..n}

\* The remote with the files of the pairs <<path, content>> in fs.
RepoOf(fs) ==
  [p \in {f[1] : f \in fs} |-> (CHOOSE f \in fs : f[1] = p)[2]]

\* ---- getFilesWithImports ----
\* Bound of the model: the largest maxDepth a caller passes.
MaxDepth == 2

p_a    == <<"a">>
p_a_ts == <<"a", ".", "t", "s">>
p_e_ts == <<"e", ".", "t", "s">>
p_b_ts == <<"/", "b", ".", "t", "s">>
p_d    == <<"/", "d">>
p_f    == <<"/", "f">>
p_m_ts == <<"m", ".", "t", "s">>
p_sm_ts == <<"/", "m", ".", "t", "s">>
p_sn_ts == <<"/", "n", ".", "t", "s">>
p_b_js == <<"/", "b", ".", "j", "s">>

\* A repository whose files refer to one another by absolute references,
\* the only ones parseImports lets through: a.ts -> /b(.ts) -> /d -> /f and
\* e.ts -> /d; /f refers to ./g.  There is a /b.js next to /b.ts.
LoadRepo1 ==
  RepoOf({ <<p_a_ts, <<"r", "e", "q", "u", "i", "r", "e", "(", "'", "/", "b", "'", ")">>>>,
           <<p_b_ts, <<"r", "e", "q", "u", "i", "r", "e", "(", "'", "/", "d", "'", ")">>>>,
           <<p_b_js, <<>>>>,
           <<p_d,    <<"r", "e", "q", "u", "i", "r", "e", "(", "'", "/", "f", "'", ")">>>>,
           <<p_e_ts, <<"i", "m", "p", "o", "r", "t", " ", "x", " ", "f", "r", "o", "m", " ", "'", "/", "d", "'">>>>,
           <<p_f,    <<"i", "m", "p", "o", "r", "t", " ", "y", " ", "f", "r", "o", "m", " ", "'", ".", "/", "g", "'">>>> })

\* A repository with a cycle, on a remote that serves a file with or without
\* a leading "/": m.ts -> /n(.ts) -> /m(.ts) -> /n.
LoadRepo2 ==
  RepoOf({ <<p_m_ts,  <<"r", "e", "q", "u", "i", "r", "e", "(", "'", "/", "n", "'", ")">>>>,
           <<p_sm_ts, <<"r", "e", "q", "u", "i", "r", "e", "(", "'", "/", "n", "'", ")">>>>,
           <<p_sn_ts, <<"r", "e", "q", "u", "i", "r", "e", "(", "'", "/", "m", "'", ")">>>> })

p_checkout == <<"s", "r", "c", "/", "c", "h", "e", "c", "k", "o", "u", "t", ".", "t", "s">>
p_pricing  == <<"s", "r", "c", "/", "p", "r", "i", "c", "i", "n", "g", ".", "t", "s">>
p_tax      == <<"s", "r", "c", "/", "t", "a", "x", ".", "t", "s">>
p_rates    == <<"s", "r", "c", "/", "r", "a", "t", "e", "s", ".", "t", "s">>

\* A repository whose files refer to one another by relative references:
\* src/checkout.ts -> ./pricing -> ./tax -> ./rates.
LoadRepo3 ==
  RepoOf({ <<p_checkout, <<"i", "m", "p", "o", "r", "t", " ", "p", " ", "f", "r", "o", "m", " ", "'", ".", "/", "p", "r", "i", "c", "i", "n", "g", "'">>>>,
           <<p_pricing,  <<"i", "m", "p", "o", "r", "t", " ", "t", " ", "f", "r", "o", "m", " ", "'", ".", "/", "t", "a", "x", "'">>>>,
           <<p_tax,      <<"c", "o", "n", "s", "t", " ", "r", " ", "=", " ", "r", "e", "q", "u", "i", "r", "e", "(", "'", ".", "/", "r", "a", "t", "e", "s", "'", ")">>>>,
           <<p_rates,    <<>>>> })

LoadRepos == {LoadRepo1, LoadRepo2, LoadRepo3}

\* The entry path lists a caller passes.
LoadEntries ==
  { <<>>, <<p_a_ts>>, <<p_a_ts, p_e_ts>>, <<p_a, p_a_ts>>, <<p_m_ts>>, <<p_checkout>> }

\* ---- parseImports, as loadFile calls it on a fetched file ----
\* The paths of the file whose content is parsed.
ParseOwners == { <<"a", "/", "b", "/", "c", ".", "t", "s">>, <<"c", ".", "t", "s">> }

\* The references a statement names: relative ones, bare module names and
\* one written with a leading "/".
ParseRefs ==
  { <<".", ".", "/", "d">>,
    <<".", "/", "d">>,
    <<".", "/", "x", "/", ".", ".", "/", "d">>,
    <<".", ".", "/", ".", ".", "/", "d">>,
    <<"d">>,
    <<"r", "e", "a", "c", "t">>,
    <<"/", "d">> }

\* The statements that hold a reference r.
importDefault(r)  == <<"i", "m", "p", "o", "r", "t", " ", "x", " ", "f", "r", "o", "m", " ", "'">> \o r \o <<"'">>
importDouble(r)   == <<"i", "m", "p", "o", "r", "t", " ", "{", " ", "y", " ", "}", " ", "f", "r", "o", "m", " ", "\"">> \o r \o <<"\"">>
requireCall(r)    == <<"r", "e", "q", "u", "i", "r", "e", "(", "'">> \o r \o <<"'", ")">>
requireAssign(r)  == <<"c", "o", "n", "s", "t", " ", "z", " ", "=", " ", "r", "e", "q", "u", "i", "r", "e", "(", "\"">> \o r \o <<"\"", ")">>

\* The file contents: one statement, or two statements on two lines or on
\* one line.
ParseContents ==
  {<<>>}
  \cup {importDefault(r) : r \in ParseRefs}
  \cup {importDouble(r) : r \in ParseRefs}
  \cup {requireCall(r) : r \in ParseRefs}
  \cup {requireAssign(r) : r \in ParseRefs}
  \cup {importDefault(r) \o <<"\n">> \o requireCall(<<".", "/", "e">>) : r \in ParseRefs}
  \cup {importDefault(r) \o <<";", " ">> \o importDefault(<<".", "/", "e">>) : r \in ParseRefs}

\* ---- applyStrReplace ----
\* Bounds of the model: the lengths of the file content and of oldStr.
MaxContentLen == 3
MaxOldLen == 2

EditAlphabet == {"a", "b"}
EditContents == StringsUpTo(EditAlphabet, MaxContentLen)
EditOldStrs  == StringsUpTo(EditAlphabet, MaxOldLen)
EditNewStrs  == { <<>>, <<"c">>, <<"a">>, <<"$", "&">>, <<"$", "$">> }
\* What other clients write to the file, and the pull requests they merge.
ExtContents  == { <<"b">>, <<"a", "b">> }
EditMerges   == { [p \in {p_a_ts} |-> Removed] }
\* The files of the branch a deleted branch is created from again.
EditSources  == { RepoOf({ <<p_a_ts, <<"a", "b">>>> }) }

\* ---- POST ----
\* Bound of the model: the number of tool calls in a response of the model.
MaxToolCalls == 2

p_n_ts == <<"n", ".", "t", "s">>

\* The repository of a turn.
TurnRepo == RepoOf({ <<p_a_ts, <<"a", "b", "a">>>> })

msgNoKeyword == <<"f", "i", "x", " ", "t", "h", "e", " ", "C", "h", "e", "c", "k", "o", "u", "t", " ", "b", "u", "g">>
msgOneKeyword == <<"f", "i", "x", " ", "a", "p", "i">>
msgTwoKeywords == <<"a", "p", "i", " ", "a", ".", "t", "s">>

Requests ==
  { [message |-> m, anthropicKey |-> TRUE, githubToken |-> TRUE, repo |-> TRUE] :
      m \in {msgNoKeyword, msgOneKeyword, msgTwoKeywords} }
  \cup
  { [message |-> msgNoKeyword, anthropicKey |-> k[1], githubToken |-> k[2], repo |-> k[3]] :
      k \in {<<FALSE, TRUE, TRUE>>, <<TRUE, FALSE, TRUE>>, <<TRUE, TRUE, FALSE>>} }

\* What a code search returns for a keyword, and for the query of a
\* search_files call.
SearchOutcomes == { <<>>, <<p_a_ts>>, <<p_a_ts, p_n_ts>> }
ToolSearchOutcomes == { <<p_a_ts>> }
\* What other clients do during a turn: one writes a.ts, one merges a pull
\* request that removes a.ts and adds n.ts.
TurnExtContents == { <<"b">> }
TurnMerges == { [p \in {p_a_ts, p_n_ts} |-> IF p = p_a_ts THEN Removed ELSE <<"x">>] }
\* The files of the branch a deleted branch is created from again.
TurnSources == { TurnRepo }

\* The tool calls the model asks for when every list of them is followed:
\* a read, edits and a creation on two paths, and a tool that does not
\* exist.
ToolCalls ==
  { [name |-> "read_file",    input |-> [path |-> p_n_ts]],
    [name |-> "str_replace",  input |-> [path |-> p_a_ts, old_str |-> <<"b">>, new_str |-> <<"c">>]],
    [name |-> "str_replace",  input |-> [path |-> p_n_ts, old_str |-> <<"x">>, new_str |-> <<"c">>]],
    [name |-> "create_file",  input |-> [path |-> p_n_ts, content |-> <<"x">>]],
    [name |-> "delete_file",  input |-> [path |-> p_a_ts]] }

ToolCallLists == StringsUpTo(ToolCalls, MaxToolCalls)

\* The lists of tool calls the model asks for in the turns that are followed
\* from every request.
TurnToolCallLists ==
  { <<>>,
    << [name |-> "create_file",  input |-> [path |-> p_n_ts, content |-> <<"x">>]],
       [name |-> "read_file",    input |-> [path |-> p_n_ts]] >>,
    << [name |-> "str_replace",  input |-> [path |-> p_a_ts, old_str |-> <<"b">>, new_str |-> <<"c">>]],
       [name |-> "search_files", input |-> [query |-> <<"a">>]] >> }

\* The responses of the model in the first and in the second round.
Responses1 == [content : {"text 1"}, toolCalls : ToolCallLists, usage : {usageB}]
TurnResponses1 == [content : {"text 1"}, toolCalls : TurnToolCallLists, usage : {usageB}]
Responses2 ==
  { [content |-> "text 2", toolCalls |-> <<>>, usage |-> usageA],
    [content |-> "text 3",
     toolCalls |-> <<[name |-> "create_file",
                      input |-> [path |-> <<"z", ".", "t", "s">>, content |-> <<"x">>]]>>,
     usage |-> usageA] }

(***************************************************************************)
(* Specifications.                                                         *)
(***************************************************************************)
loaderIdle ==
  /\ glPc = "idle" /\ entryPaths = <<>> /\ maxDepth = 0
  /\ loaded = {} /\ files = <<>> /\ loads = <<>>

claudeIdle ==
  /\ costTracker = newCostTracker /\ heap = newHeap /\ modelCalls = <<>>
  /\ snapshot = None

turnIdle ==
  /\ pc = "idle" /\ request = None /\ searches = <<>> /\ codeContext = None
  /\ round1 = None /\ toolResults = <<>> /\ filesChanged = <<>>
  /\ callIdx = 0 /\ exec = "none" /\ response = None

\* ---- findRelevantFiles ----
\* Request texts with no keyword, with one, with two after deduplication,
\* with three that differ in letter case only, and with four of which
\* extractKeywords keeps three.
msgCaseKeywords  == <<"a", "p", "i", " ", "A", "P", "I", " ", "A", "p", "i">>
msgDupKeywords   == <<"a", "p", "i", " ", "r", "o", "u", "t", "e", " ", "a", "p", "i">>
msgFourKeywords  == <<"p", "a", "g", "e", " ", "h", "o", "o", "k", " ", "t", "y", "p", "e", " ", "u", "t", "i", "l">>

\* The keywords of the request texts, computed once.
knownKeywords ==
  [m \in {msgNoKeyword, msgOneKeyword, msgTwoKeywords,
          msgCaseKeywords, msgDupKeywords, msgFourKeywords} |-> extractKeywords(m)]

keywordsOf(message) ==
  IF message \in DOMAIN knownKeywords THEN knownKeywords[message] ELSE extractKeywords(message)

SeedRequests ==
  { [message |-> m, anthropicKey |-> TRUE, githubToken |-> TRUE, repo |-> TRUE] :
      m \in {msgNoKeyword, msgOneKeyword, msgCaseKeywords, msgDupKeywords, msgFourKeywords} }

\* The path of a file named by one letter.
seedPath(c) == <<c>> \o extTs

\* What the code search returns for a keyword: for page, hook and type,
\* lists that overlap and whose union has more than five paths.
SeedOutcomes(keyword) ==
  IF keyword = <<"p", "a", "g", "e">>
  THEN { <<seedPath("a"), seedPath("b"), seedPath("c")>> }
  ELSE IF keyword = <<"h", "o", "o", "k">> THEN { <<seedPath("c"), seedPath("d")>> }
  ELSE IF keyword = <<"t", "y", "p", "e">> THEN { <<seedPath("e"), seedPath("f")>> }
  ELSE IF keyword = <<"r", "o", "u", "t", "e">> THEN { <<p_tax>> }
  ELSE { <<p_checkout>> }

\* ---- one call of getFilesWithImports on a repository ----
InitLoad ==
  /\ remote \in LoadRepos /\ faults = 0 /\ extWrites = 0 /\ branchLive = TRUE
  /\ loaderIdle /\ edit = NoEdit /\ claudeIdle /\ turnIdle

restOfLoad == <<edit, claudeVars, turnVars>>

NextLoad ==
  \/ \E eps \in LoadEntries, md \in 0..MaxDepth :
       GetFilesWithImports(eps, md) /\ UNCHANGED restOfLoad
  \/ \E t \in 1..Len(loads) : FetchOk(t) /\ UNCHANGED restOfLoad
  \/ \E t \in 1..Len(loads) : FetchNotFound(t) /\ UNCHANGED restOfLoad
  \/ \E t \in 1..Len(loads) : FetchUnavailable(t) /\ UNCHANGED restOfLoad
  \/ \E t \in 1..Len(loads) : LoadFileJoin(t) /\ UNCHANGED restOfLoad
  \/ GetFilesWithImportsReturn /\ UNCHANGED restOfLoad

SpecLoad == InitLoad /\ [][NextLoad]_vars

\* The steps of a running call other than a resolving fetch: a fetch is
\* rejected, or the continuation of a settled Promise.all runs.
LoadProgress ==
  \/ \E t \in 1..Len(loads) : FetchNotFound(t) /\ UNCHANGED restOfLoad
  \/ \E t \in 1..Len(loads) : LoadFileJoin(t) /\ UNCHANGED restOfLoad
  \/ GetFilesWithImportsReturn /\ UNCHANGED restOfLoad

\* A fetch of an existing file is in flight: FetchOk is enabled.
FetchOkEnabled ==
  /\ glPc = "running"
  /\ \E t \in 1..Len(loads) : loads[t].st = "fetch" /\ Candidate(t) \in DOMAIN remote

\* A fetch of an existing file settles: it resolves or it is rejected.
FetchSettles ==
  \/ \E t \in 1..Len(loads) : FetchOk(t) /\ UNCHANGED restOfLoad
  \/ \E t \in 1..Len(loads) : FetchUnavailable(t) /\ UNCHANGED restOfLoad

\* Every fetch in flight eventually resolves or rejects, and the event loop
\* eventually runs a continuation that is ready.  The second condition is
\* the weak fairness of FetchSettles with its enabling condition written out.
SpecLoadFair ==
  /\ InitLoad /\ [][NextLoad]_vars
  /\ WF_vars(LoadProgress)
  /\ ([]<>~FetchOkEnabled \/ []<><<FetchSettles>>_vars)

\* ---- parseImports: one call of getFilesWithImports on one file ----
\* The call loads the one file of the repository and, maxDepth being 1,
\* calls loadFile once for every path parseImports returns for it, so that
\* these paths are those of the invocations of loadFile after the first.
InitParse ==
  /\ remote \in {RepoOf({<<o, c>>}) : o \in ParseOwners, c \in ParseContents}
  /\ faults = 0 /\ extWrites = 0 /\ branchLive = TRUE
  /\ loaderIdle /\ edit = NoEdit /\ claudeIdle /\ turnIdle

NextParse ==
  \/ \E o \in ParseOwners :
       o \in DOMAIN remote /\ GetFilesWithImports(<<o>>, 1) /\ UNCHANGED restOfLoad
  \/ \E t \in 1..Len(loads) : FetchOk(t) /\ UNCHANGED restOfLoad
  \/ \E t \in 1..Len(loads) : FetchNotFound(t) /\ UNCHANGED restOfLoad
  \/ \E t \in 1..Len(loads) : FetchUnavailable(t) /\ UNCHANGED restOfLoad
  \/ \E t \in 1..Len(loads) : LoadFileJoin(t) /\ UNCHANGED restOfLoad
  \/ GetFilesWithImportsReturn /\ UNCHANGED restOfLoad

SpecParse == InitParse /\ [][NextParse]_vars

\* ---- one call of applyStrReplace, with other writers ----
editPath == p_a_ts

InitEdit ==
  /\ remote \in {RepoOf({<<editPath, c>>}) : c \in EditContents} \cup {RepoOf({})}
  /\ faults = 0 /\ extWrites = 0 /\ branchLive = TRUE
  /\ loaderIdle /\ edit = NoEdit /\ claudeIdle /\ turnIdle

\* A caller invokes applyStrReplace.
ApplyStrReplace(path, oldStr, newStr) ==
  /\ edit.st = "none"
  /\ edit' = applyStrReplaceCall(path, oldStr, newStr)
  /\ UNCHANGED remoteVars

restOfEdit == <<loaderVars, claudeVars, turnVars>>

NextEdit ==
  \/ \E o \in EditOldStrs, n \in EditNewStrs :
       ApplyStrReplace(editPath, o, n) /\ UNCHANGED restOfEdit
  \/ ApplyStrReplaceFetched /\ UNCHANGED restOfEdit
  \/ ApplyStrReplaceFetchNotFound /\ UNCHANGED restOfEdit
  \/ ApplyStrReplaceUnavailable /\ UNCHANGED restOfEdit
  \/ ApplyStrReplaceWritten /\ UNCHANGED restOfEdit
  \/ ApplyStrReplaceConflict /\ UNCHANGED restOfEdit
  \/ \E c \in ExtContents :
       ExternalWrite(editPath, c) /\ UNCHANGED <<edit, restOfEdit>>
  \/ \E ch \in EditMerges :
       MergePullRequest(ch) /\ UNCHANGED <<edit, restOfEdit>>
  \/ DeleteBranch /\ UNCHANGED <<edit, restOfEdit>>
  \/ \E fromFiles \in EditSources :
       CreateBranch(fromFiles) /\ UNCHANGED <<edit, restOfEdit>>

SpecEdit == InitEdit /\ [][NextEdit]_vars

\* ---- one turn: the handler POST, with other clients of the remote ----
Init ==
  /\ remote = TurnRepo /\ faults = 0 /\ extWrites = 0 /\ branchLive = TRUE
  /\ loaderIdle /\ edit = NoEdit /\ claudeIdle /\ turnIdle

\* getFilesWithImports runs while POST awaits it (line 44).
Loading == pc = "load"
restOfLoading == <<edit, claudeVars, turnVars>>

\* applyStrReplace runs while executeToolCall awaits it (line 181).
Editing == pc = "tool" /\ exec = "edit"
restOfEditing == <<loaderVars, claudeVars, turnVars>>

\* The handler is running: other clients change the remote meanwhile.
Running == pc \notin {"idle", "responded"}
restOfExternal == <<loaderVars, edit, claudeVars, turnVars>>

\* Another client writes a file while the handler runs.
ExternalStep ==
  \E c \in TurnExtContents :
    Running /\ ExternalWrite(p_a_ts, c) /\ UNCHANGED restOfExternal

Next ==
  \/ \E req \in Requests : Post(req)
  \/ FileTreeRejected
  \/ FileTreeResolved
  \/ \E i \in 1..Len(searches), paths \in SearchOutcomes : SearchResolved(i, paths)
  \/ \E i \in 1..Len(searches) : SearchRejected(i)
  \/ \E t \in 1..Len(loads) : Loading /\ FetchOk(t) /\ UNCHANGED restOfLoading
  \/ \E t \in 1..Len(loads) : Loading /\ FetchNotFound(t) /\ UNCHANGED restOfLoading
  \/ \E t \in 1..Len(loads) : Loading /\ FetchUnavailable(t) /\ UNCHANGED restOfLoading
  \/ \E t \in 1..Len(loads) : Loading /\ LoadFileJoin(t) /\ UNCHANGED restOfLoading
  \/ Loading /\ GetFilesWithImportsReturn /\ UNCHANGED restOfLoading
  \/ PostLoaded
  \/ \E resp \in TurnResponses1 : Chat1Resolved(resp)
  \/ ChatRejected
  \/ ToolDispatch
  \/ ReadFileResolved
  \/ ReadFileNotFound
  \/ Editing /\ ApplyStrReplaceFetched /\ UNCHANGED restOfEditing
  \/ Editing /\ ApplyStrReplaceFetchNotFound /\ UNCHANGED restOfEditing
  \/ Editing /\ ApplyStrReplaceUnavailable /\ UNCHANGED restOfEditing
  \/ Editing /\ ApplyStrReplaceWritten /\ UNCHANGED restOfEditing
  \/ Editing /\ ApplyStrReplaceConflict /\ UNCHANGED restOfEditing
  \/ StrReplaceReturned
  \/ CreateFileWritten
  \/ CreateFileRejected
  \/ \E paths \in ToolSearchOutcomes : ToolSearchResolved(paths)
  \/ ToolUnavailable
  \/ \E resp \in Responses2 : Chat2Resolved(resp)
  \/ ExternalStep
  \/ \E ch \in TurnMerges : Running /\ MergePullRequest(ch) /\ UNCHANGED restOfExternal
  \/ Running /\ DeleteBranch /\ UNCHANGED restOfExternal
  \/ \E fromFiles \in TurnSources : Running /\ CreateBranch(fromFiles) /\ UNCHANGED restOfExternal

Spec == Init /\ [][Next]_vars

\* ---- the tool calls of a turn: the handler POST, from a request whose ----
\* ---- message has no keyword, with every list of the calls that   ----
\* ---- read and write files                                        ----
ToolRequests ==
  { [message |-> msgNoKeyword, anthropicKey |-> TRUE, githubToken |-> TRUE, repo |-> TRUE] }

NextTools ==
  \/ \E req \in ToolRequests : Post(req)
  \/ FileTreeRejected
  \/ FileTreeResolved
  \/ Loading /\ GetFilesWithImportsReturn /\ UNCHANGED restOfLoading
  \/ PostLoaded
  \/ \E resp \in Responses1 : Chat1Resolved(resp)
  \/ ChatRejected
  \/ ToolDispatch
  \/ ReadFileResolved
  \/ ReadFileNotFound
  \/ Editing /\ ApplyStrReplaceFetched /\ UNCHANGED restOfEditing
  \/ Editing /\ ApplyStrReplaceFetchNotFound /\ UNCHANGED restOfEditing
  \/ Editing /\ ApplyStrReplaceUnavailable /\ UNCHANGED restOfEditing
  \/ Editing /\ ApplyStrReplaceWritten /\ UNCHANGED restOfEditing
  \/ Editing /\ ApplyStrReplaceConflict /\ UNCHANGED restOfEditing
  \/ StrReplaceReturned
  \/ CreateFileWritten
  \/ CreateFileRejected
  \/ ToolUnavailable
  \/ \E resp \in Responses2 : Chat2Resolved(resp)
  \/ ExternalStep
  \/ \E ch \in TurnMerges : Running /\ MergePullRequest(ch) /\ UNCHANGED restOfExternal
  \/ Running /\ DeleteBranch /\ UNCHANGED restOfExternal
  \/ \E fromFiles \in TurnSources : Running /\ CreateBranch(fromFiles) /\ UNCHANGED restOfExternal

SpecTools == Init /\ [][NextTools]_vars

\* ---- one ClaudeClient: model rounds and session resets ----
\* The usage of a round.
LedgerUsages == {usageA, usageSmall, usageB}

restOfLedger == <<remoteVars, loaderVars, edit, turnVars>>

InitLedger ==
  /\ remote = TurnRepo /\ faults = 0 /\ extWrites = 0 /\ branchLive = TRUE
  /\ loaderIdle /\ edit = NoEdit /\ claudeIdle /\ turnIdle

NextLedger ==
  \/ Chat(<<>>, None) /\ UNCHANGED restOfLedger
  \/ \E i \in 1..Len(modelCalls), u \in LedgerUsages :
        ChatResolved(i, u) /\ UNCHANGED restOfLedger
  \/ \E i \in 1..Len(modelCalls) : ChatThrows(i) /\ UNCHANGED restOfLedger
  \/ resetSessionCost /\ UNCHANGED restOfLedger

SpecLedger == InitLedger /\ [][NextLedger]_vars

\* ---- one ClaudeClient and a caller that holds a snapshot of its ledger ----
\* The value the caller assigns to the fields of its snapshot.
SnapshotValues == {1}

NextSnapshot ==
  \/ Chat(<<>>, None) /\ UNCHANGED restOfLedger
  \/ \E i \in 1..Len(modelCalls), u \in LedgerUsages :
        ChatResolved(i, u) /\ UNCHANGED restOfLedger
  \/ \E i \in 1..Len(modelCalls) : ChatThrows(i) /\ UNCHANGED restOfLedger
  \/ resetSessionCost /\ UNCHANGED restOfLedger
  \/ GetCostTracker /\ UNCHANGED restOfLedger
  \/ \E n \in SnapshotValues : SnapshotAssigned(n) /\ UNCHANGED restOfLedger

SpecSnapshot == InitLedger /\ [][NextSnapshot]_vars

\* ---- findRelevantFiles: a turn whose first model round ends it ----
\* The repository of LoadRepo3 with the files the searches name, which are
\* empty.
SeedRepo ==
  [q \in DOMAIN LoadRepo3 \cup {seedPath(c) : c \in {"a", "b", "c", "d", "e", "f"}} |->
     IF q \in DOMAIN LoadRepo3 THEN LoadRepo3[q] ELSE <<>>]

\* The first round's response: text only.
SeedResponses1 == [content : {"text 1"}, toolCalls : {<<>>}, usage : {usageB}]

InitSeeds ==
  /\ remote = SeedRepo /\ faults = 0 /\ extWrites = 0 /\ branchLive = TRUE
  /\ loaderIdle /\ edit = NoEdit /\ claudeIdle /\ turnIdle

NextSeeds ==
  \/ \E req \in SeedRequests : Post(req)
  \/ FileTreeRejected
  \/ FileTreeResolved
  \/ \E i \in 1..Len(searches) :
       \E paths \in SeedOutcomes(keywordsOf(request.message)[i]) : SearchResolved(i, paths)
  \/ \E i \in 1..Len(searches) : SearchRejected(i)
  \/ \E t \in 1..Len(loads) : Loading /\ FetchOk(t) /\ UNCHANGED restOfLoading
  \/ \E t \in 1..Len(loads) : Loading /\ FetchNotFound(t) /\ UNCHANGED restOfLoading
  \/ \E t \in 1..Len(loads) : Loading /\ FetchUnavailable(t) /\ UNCHANGED restOfLoading
  \/ \E t \in 1..Len(loads) : Loading /\ LoadFileJoin(t) /\ UNCHANGED restOfLoading
  \/ Loading /\ GetFilesWithImportsReturn /\ UNCHANGED restOfLoading
  \/ PostLoaded
  \/ \E resp \in SeedResponses1 : Chat1Resolved(resp)
  \/ ChatRejected

SpecSeeds == InitSeeds /\ [][NextSeeds]_vars



(***************************************************************************)
(* The claims.                                                             *)
(***************************************************************************)

\* The number of occurrences of oldStr in content from position from on,
\* counted literally, left to right and without overlap; the empty string
\* occurs before every character and at the end.
RECURSIVE OccurrencesFrom(_, _, _)
OccurrencesFrom(content, oldStr, from) ==
  LET at == IndexOfFrom(content, oldStr, from)
  IN IF at = 0 THEN 0
     ELSE 1 + OccurrencesFrom(content, oldStr,
                              at + (IF Len(oldStr) = 0 THEN 1 ELSE Len(oldStr)))

OccurrenceCount(content, oldStr) == OccurrencesFrom(content, oldStr, 1)

\* The repository after the first k tool calls of the turn, when nobody else
\* writes: the effects of the calls that reported success, applied in the
\* order of the calls to the repository the turn started with.
RECURSIVE RepoAfter(_)
RepoAfter(k) ==
  IF k = 0 THEN TurnRepo
  ELSE LET before == RepoAfter(k - 1)
           call == round1.toolCalls[k]
           r == toolResults[k]
       IN IF r.success /\ call.name = "create_file"
          THEN [q \in DOMAIN before \cup {call.input.path} |->
                  IF q = call.input.path THEN call.input.content ELSE before[q]]
          ELSE IF r.success /\ call.name = "str_replace"
          THEN [before EXCEPT ![call.input.path] =
                  Replace(@, call.input.old_str, call.input.new_str)]
          ELSE before

\* The FileChange entries of the first k tool calls that reported success.
RECURSIVE ChangesOfSuccessful(_)
ChangesOfSuccessful(k) ==
  IF k = 0 THEN <<>>
  ELSE LET call == round1.toolCalls[k]
       IN ChangesOfSuccessful(k - 1) \o
          IF toolResults[k].success /\ call.name \in {"str_replace", "create_file"}
          THEN <<[path |-> call.input.path,
                  action |-> IF call.name = "create_file" THEN "create" ELSE "edit"]>>
          ELSE <<>>

\* A step that changes the repository and is not a step of another client:
\* a write of the turn.
TurnWrites == remote' # remote /\ extWrites' = extWrites

\* The turn has run the first model round and it returned tool calls.
HasToolCalls == round1 # None /\ Len(round1.toolCalls) > 0

\* C1 (SpecLoad): during one call of getFilesWithImports no path is fetched
\* successfully more than once and no path occurs more than once in the
\* list of files, whatever the repository, the entry paths and the
\* interleaving of the fetches.  Every successful fetch appends to files, so
\* both are the absence of a repeated path in files.
C1_NoPathLoadedTwice ==
  \A i, j \in 1..Len(files) : files[i].path = files[j].path => i = j

\* C2 (Spec): the list of changed files a turn returns holds an entry for a
\* create_file or str_replace call only if that call's result has success =
\* true: it is the list of the entries of the successful calls, in order.
C2_ChangedOnlyIfSucceeded ==
  pc = "responded" /\ response.status = 200 =>
    response.filesChanged = ChangesOfSuccessful(Len(toolResults))

\* C3 (SpecEdit): with the file fetched and no other writer or outage,
\* applyStrReplace succeeds if and only if oldStr occurs exactly once in the
\* fetched content; with no occurrence it returns the not-found failure and
\* with two or more the ambiguous failure.
C3_SucceedsIffExactlyOnce ==
  edit.st = "returned" /\ extWrites = 0 /\ faults = 0 /\ edit.path \in DOMAIN remote =>
    LET content == IF edit.result.success THEN edit.file.content ELSE remote[edit.path]
        n == OccurrenceCount(content, edit.oldStr)
    IN /\ edit.result.success <=> n = 1
       /\ n = 0 => ~edit.result.success /\ edit.result.error[1] = errNotFound(edit.path)[1]
       /\ n >= 2 => ~edit.result.success /\ edit.result.error[1] = errAmbiguous(n, edit.path)[1]

\* C4 (SpecEdit): when the content of the file at the moment applyStrReplace's
\* write arrives is not the content applyStrReplace fetched, the call returns
\* success = false and the remote is left as the other writer made it; so a
\* write that succeeds is based on the content current at that moment.
C4_WriteBasedOnCurrentContent ==
  [][ (edit.st = "write" /\ edit'.st = "returned"
       /\ (edit.path \notin DOMAIN remote \/ remote[edit.path] # edit.file.content))
      => (~edit'.result.success /\ remote' = remote) ]_vars

\* C4's case: another writer changed the file between the read and the
\* write, the call returned the conflict and the other content stands.
C4_Witness ==
  /\ edit.st = "returned"
  /\ ~edit.result.success
  /\ edit.result.error[1] = "Conflict"
  /\ extWrites = 1
  /\ remote[edit.path] \in ExtContents
  /\ remote[edit.path] # edit.file.content

\* C5 (Spec): the model is called at most twice in a turn; the second call
\* is made only when the first round returned at least one tool call, and
\* only once every one of them has returned its result.
C5_AtMostTwoRounds ==
  /\ Len(modelCalls) <= 2
  /\ Len(modelCalls) = 2 =>
       /\ HasToolCalls
       /\ Len(toolResults) = Len(round1.toolCalls)
       /\ exec = "none"
       /\ edit = NoEdit
       /\ pc \in {"chat2", "responded"}

\* C5's case: a turn with the most tool calls has answered after two rounds.
C5_Witness ==
  /\ pc = "responded"
  /\ response.status = 200
  /\ Len(modelCalls) = 2
  /\ Len(round1.toolCalls) = MaxToolCalls

\* The turn has answered after a first round without tool calls: one model
\* call, no tool dispatched, the text and the usage of round one in the
\* response, no changed file.
EndedWithRoundOne ==
  pc = "responded" /\ round1 # None /\ Len(round1.toolCalls) = 0 =>
    /\ Len(modelCalls) = 1
    /\ toolResults = <<>> /\ callIdx = 0 /\ exec = "none" /\ edit = NoEdit
    /\ extWrites = 0 => remote = TurnRepo
    /\ response.status = 200
    /\ response.content = round1.content
    /\ response.tokensUsed.input = round1.usage.input_tokens
    /\ response.tokensUsed.output = round1.usage.output_tokens
    /\ response.tokensUsed.cacheRead = round1.usage.cache_read_input_tokens
    /\ response.tokensUsed.cacheWrite = round1.usage.cache_creation_input_tokens
    /\ response.filesChanged = <<>>

\* C6 (Spec): when the first round returns no tool call the turn ends with
\* it: one model call, no tool dispatched, the text and the usage of round
\* one in the response, no changed file; and no step of such a turn writes
\* the repository, which changes by the steps of other clients only.
C6_NoToolCallsEndsTurn ==
  /\ []EndedWithRoundOne
  /\ [][(round1' = None \/ Len(round1'.toolCalls) = 0) => ~TurnWrites]_vars

\* C6's case: a turn answered after a first round without tool calls whose
\* usage has four different counters.
C6_Witness ==
  /\ pc = "responded"
  /\ round1 # None
  /\ round1.toolCalls = <<>>
  /\ round1.usage = usageB
  /\ response.status = 200

\* C7 (Spec): the tool calls are run in the order the model returned them
\* and one at a time: result i belongs to call i, the loop is at the call
\* after the last result, and a remote operation or an applyStrReplace in
\* flight belongs to that call; so, nobody else writing, a read_file or
\* str_replace sees the repository as the earlier successful calls left it.
C7_CallsInOrderOneAtATime ==
  HasToolCalls =>
    /\ callIdx = Len(toolResults) + 1
    /\ Len(toolResults) <= Len(round1.toolCalls)
    /\ pc = "tool" => callIdx <= Len(round1.toolCalls)
    /\ exec # "none" => pc = "tool"
    /\ edit # NoEdit =>
         /\ pc = "tool" /\ exec = "edit"
         /\ currentCall.name = "str_replace"
         /\ edit.path = currentCall.input.path
         /\ edit.oldStr = currentCall.input.old_str
    /\ extWrites = 0 =>
         \A i \in 1..Len(toolResults) :
           LET call == round1.toolCalls[i]
               r == toolResults[i]
               before == RepoAfter(i - 1)
           IN /\ call.name = "read_file" /\ r.success =>
                   /\ call.input.path \in DOMAIN before
                   /\ r.result = before[call.input.path]
              /\ call.name = "read_file" /\ ~r.success /\ faults = 0 =>
                   call.input.path \notin DOMAIN before
              /\ call.name = "str_replace" /\ r.success =>
                   /\ call.input.path \in DOMAIN before
                   /\ Includes(before[call.input.path], call.input.old_str)
              /\ call.name = "str_replace" /\ ~r.success /\ faults = 0 =>
                   \/ call.input.path \notin DOMAIN before
                   \/ OccurrenceCount(before[call.input.path], call.input.old_str) # 1

\* C7's case: a read_file has returned the content an earlier create_file of
\* the same turn wrote.
C7_Witness ==
  /\ HasToolCalls
  /\ Len(toolResults) = 2
  /\ round1.toolCalls[1].name = "create_file"
  /\ toolResults[1].success
  /\ round1.toolCalls[2].name = "read_file"
  /\ round1.toolCalls[2].input.path = round1.toolCalls[1].input.path
  /\ toolResults[2].success
  /\ toolResults[2].result = round1.toolCalls[1].input.content

\* C8 (Spec): only a failure of the model makes a turn fail; a failure of a
\* repository operation never does.  A turn fails by answering 500.
C8_OnlyModelFailureIsFatal ==
  pc = "responded" /\ response.status = 500 => response.error = "chat failed"

\* C9 (Spec): whichever tool calls fail, every call gets its result, the
\* follow-up round is issued, and, nobody else writing, the repository holds
\* the effects of the calls that succeeded.
C9_PartialFailureProceeds ==
  HasToolCalls /\ pc \in {"chat2", "responded"} =>
    /\ Len(toolResults) = Len(round1.toolCalls)
    /\ Len(modelCalls) = 2
    /\ modelCalls[2].messages = followUpMessages(request, round1, toolResults)
    /\ extWrites = 0 => remote = RepoAfter(Len(toolResults))

\* C9's case: the first call created a file, the second failed, the turn has
\* answered and the file is there.
C9_Witness ==
  /\ HasToolCalls
  /\ pc = "responded"
  /\ response.status = 200
  /\ Len(toolResults) = 2
  /\ round1.toolCalls[1].name = "create_file"
  /\ toolResults[1].success
  /\ ~toolResults[2].success
  /\ round1.toolCalls[1].input.path \in DOMAIN remote
  /\ remote # TurnRepo

\* C10 (Spec): a tool call with an unknown name gets a result with success =
\* false and an error naming the tool, waits for no repository operation,
\* and does not end the turn: the other calls get their results and the
\* follow-up round is issued.
C10_UnknownToolFailsSoftly ==
  HasToolCalls =>
    \A i \in 1..Len(round1.toolCalls) :
      round1.toolCalls[i].name \notin knownTools =>
        /\ i <= Len(toolResults) =>
             /\ ~toolResults[i].success
             /\ toolResults[i].error = <<"Unknown tool:", round1.toolCalls[i].name>>
        /\ pc = "tool" /\ callIdx = i => exec = "start" /\ edit = NoEdit
        /\ pc \in {"chat2", "responded"} =>
             /\ Len(toolResults) = Len(round1.toolCalls)
             /\ Len(modelCalls) = 2
        /\ pc = "responded" /\ response.status = 500 => response.error = "chat failed"

\* C10's case: an unknown tool came first, the call after it succeeded and
\* the turn has answered.
C10_Witness ==
  /\ HasToolCalls
  /\ pc = "responded"
  /\ response.status = 200
  /\ Len(toolResults) = 2
  /\ round1.toolCalls[1].name \notin knownTools
  /\ ~toolResults[1].success
  /\ toolResults[2].success


\* The references of content that begin with "./" or "../", each resolved
\* against the directory of owner, in the order parseImports finds them.
relativeImports(content, owner) ==
  LET raw == importRegexExecAll(content, 1) \o requireRegexExecAll(content, 1)
      rel == SelectSeq(raw, LAMBDA r : StartsWith(r, sDotSlash) \/ StartsWith(r, sDotDotSlash))
  IN [k \in 1..Len(rel) |-> resolveImportPath(rel[k], owner)]

\* A file exists at path or at path with one of loadFile's suffixes.
Loadable(path) ==
  \E k \in 1..Len(possiblePaths(path)) : possiblePaths(path)[k] \in DOMAIN remote

\* The list files holds the file loadFile finds for path.
LoadedFor(path) ==
  \E j \in 1..Len(files), k \in 1..Len(possiblePaths(path)) :
    files[j].path = possiblePaths(path)[k]

\* C11 (SpecLoad): a file loaded at a depth below maxDepth has its relative
\* imports loaded one level deeper.  Stated for a call with one entry path
\* and maxDepth >= 1, no fetch failing for an outage: when the call has
\* returned, every relative import of the seed file that names a file of
\* the repository is in files.
C11_SeedRelativeImportsLoaded ==
  (/\ glPc = "returned" /\ faults = 0
   /\ Len(entryPaths) = 1 /\ maxDepth >= 1
   /\ entryPaths[1] \in DOMAIN remote)
  => LET refs == relativeImports(remote[entryPaths[1]], entryPaths[1])
     IN \A k \in 1..Len(refs) : Loadable(refs[k]) => LoadedFor(refs[k])


\* In SpecParse: the one file has been fetched and parsed.
Parsed == glPc # "idle" /\ Len(files) >= 1 /\ files[1].path = entryPaths[1]

\* In SpecParse: what parseImports returned for the file, the paths loadFile
\* was called with after the entry path.
parsedImports == [k \in 1..(Len(loads) - 1) |-> loads[k + 1].path]

\* The references of content, as written.
rawImports(content) ==
  importRegexExecAll(content, 1) \o requireRegexExecAll(content, 1)

\* C12 (SpecParse): parseImports returns, for every reference of the content
\* that begins with "./" or "../", the path resolved against the directory
\* of the owner path; for a/b/c.ts and ../d it returns a/d.
C12_RelativeReferencesReturned ==
  Parsed =>
    LET refs == relativeImports(files[1].content, files[1].path)
    IN \A k \in 1..Len(refs) :
         \E j \in 1..Len(parsedImports) : parsedImports[j] = refs[k]

\* C13 (SpecParse): parseImports discards every reference that does not
\* begin with "./" or "../", so it returns the empty sequence when no
\* reference does, and no path it returns begins with "/" or has a ".."
\* segment.
C13_NonRelativeReferencesDiscarded ==
  Parsed =>
    /\ Len(parsedImports) <= Len(relativeImports(files[1].content, files[1].path))
    /\ \A j \in 1..Len(parsedImports) :
         /\ ~StartsWith(parsedImports[j], sSlash)
         /\ \A i \in 1..Len(Split(parsedImports[j], sSlash)) :
              Split(parsedImports[j], sSlash)[i] # sDotDot

\* The paths of the files the loader returned.
filePaths == {files[j].path : j \in 1..Len(files)}

\* C14 (SpecSeeds): for the request text "fix the Checkout bug",
\* findRelevantFiles returns exactly src/checkout.ts; and loading the seed
\* src/checkout.ts, which imports ./pricing, with maxDepth 2 yields
\* src/checkout.ts, src/pricing.ts and src/tax.ts, which pricing.ts imports,
\* and not src/rates.ts, one level deeper.
C14_CheckoutScenario ==
  /\ (pc = "load" /\ request.message = msgNoKeyword) => entryPaths = <<p_checkout>>
  /\ (pc = "load" /\ glPc = "returned" /\ faults = 0 /\ entryPaths = <<p_checkout>>)
       => filePaths = {p_checkout, p_pricing, p_tax}

\* The keywords of the request of the turn.
keywordsOfTurn == keywordsOf(request.message)

NoDuplicates(xs) == \A i, j \in 1..Len(xs) : xs[i] = xs[j] => i = j

\* C15 (SpecSeeds): findRelevantFiles issues one search for each of at most
\* 3 pairwise-distinct keywords and returns at most 5 paths without
\* duplicates, each returned by one of the searches; with no keyword it
\* issues no search and returns the empty list, and the loader then returns
\* an empty file list and the turn goes on to the model without an error.
C15_SeedsCappedAndDistinct ==
  /\ pc \in {"search", "load"} =>
       /\ Len(keywordsOfTurn) <= 3
       /\ NoDuplicates(keywordsOfTurn)
       /\ Len(searches) = Len(keywordsOfTurn)
       /\ Len(keywordsOfTurn) = 0 => pc = "load"
  /\ pc = "load" =>
       /\ Len(entryPaths) <= 5
       /\ NoDuplicates(entryPaths)
       /\ \A e \in 1..Len(entryPaths) :
            \E k \in 1..Len(searches) : \E j \in 1..Len(searches[k].paths) :
              searches[k].paths[j] = entryPaths[e]
       /\ Len(keywordsOfTurn) = 0 => entryPaths = <<>>
       /\ (Len(keywordsOfTurn) = 0 /\ glPc = "returned") => files = <<>>
  /\ (pc = "chat1" /\ Len(keywordsOfTurn) = 0) =>
       /\ codeContext.files = <<>>
       /\ response = None

\* Three searches have returned more than five paths, some of them twice,
\* and five were kept.
C15_Witness ==
  /\ pc = "load"
  /\ Len(searches) = 3
  /\ Len(searchResultsFlat(searches)) > 5
  /\ Len(Dedupe(searchResultsFlat(searches))) < Len(searchResultsFlat(searches))
  /\ Len(entryPaths) = 5

\* No keyword: the model round is issued with an empty file list.
C15_WitnessNoKeyword ==
  pc = "chat1" /\ Len(keywordsOfTurn) = 0 /\ codeContext.files = <<>>

\* A step in which one keyword search of findRelevantFiles fails.
SearchFails == pc = "search" /\ faults' = faults + 1

\* A step in which one fetch of the loader fails although the file exists.
FetchFails == pc = "load" /\ glPc = "running" /\ faults' = faults + 1

\* The step settles one pending search with the empty result, leaves the
\* other searches as they are and the turn without a response.
SearchCountsAsEmpty ==
  /\ \E i \in 1..Len(searches) :
       /\ searches[i].st = "pending"
       /\ searches' = [searches EXCEPT ![i] = [st |-> "settled", paths |-> <<>>]]
  /\ pc' \in {"search", "load"}
  /\ response' = None

\* The step moves one fetching invocation as a missing file does, leaves
\* the other invocations and the files collected so far as they are and the
\* call running.
FetchCountsAsNotFound ==
  /\ \E t \in 1..Len(loads) :
       /\ loads[t].st = "fetch"
       /\ loads' = loadFileNext(t)
  /\ files' = files /\ loaded' = loaded
  /\ glPc' = "running" /\ pc' = "load"
  /\ response' = None

\* Every sibling has completed when the fan-out returns, and the output is
\* made of the results of all of them; the only failures that end a turn
\* are those of getFileTree and of the model.
FanOutCompletes ==
  /\ pc = "load" =>
       /\ \A k \in 1..Len(searches) : searches[k].st = "settled"
       /\ entryPaths = Take(Dedupe(searchResultsFlat(searches)), 5)
  /\ glPc = "returned" =>
       /\ \A t \in 1..Len(loads) : loads[t].st = "done"
       /\ filePaths = loaded
       /\ faults = 0 /\ extWrites = 0 =>
            \A e \in 1..Len(entryPaths) :
              entryPaths[e] \in DOMAIN remote => entryPaths[e] \in filePaths
  /\ (response # None /\ response.status = 500) =>
       response.error \in {"getFileTree failed", "chat failed"}

\* C16 (Spec): a failing keyword search counts as an empty result for its
\* keyword and a failing fetch as a missing file; the siblings of the failed
\* operation run to completion, their results are in the output, and neither
\* findRelevantFiles nor getFilesWithImports fails.
C16_FanOutFailureIsolated ==
  /\ [][(SearchFails => SearchCountsAsEmpty) /\ (FetchFails => FetchCountsAsNotFound)]_vars
  /\ []FanOutCompletes

\* One of two searches failed, the other returned paths, and the loader was
\* called with them: no fetch has settled yet.
C16_Witness ==
  /\ pc = "load" /\ glPc = "running" /\ faults = 1
  /\ Len(searches) = 2
  /\ \E k \in 1..2 : searches[k].paths = <<>> /\ searches[3 - k].paths = entryPaths
  /\ entryPaths # <<>>
  /\ \A t \in 1..Len(loads) : loads[t].st = "fetch" /\ loads[t].cand = 1

\* The fetch of an existing entry path failed and the call returned without it.
C16_WitnessFetch ==
  /\ pc = "load" /\ glPc = "returned" /\ faults = 1
  /\ \E e \in 1..Len(entryPaths) :
       entryPaths[e] \in DOMAIN remote /\ entryPaths[e] \notin filePaths

\* The four token counters of the ledger, now and after the step.
tokensNow  == heap[costTracker.tokensUsed]
tokensNext == heap'[costTracker'.tokensUsed]

TokenFields == {"input", "output", "cacheRead", "cacheWrite"}

\* A step that completes a model round: the promise of a request that was
\* with the model resolves.
RoundCompletes ==
  \E i \in 1..Len(modelCalls) :
    modelCalls[i].st = "sent" /\ modelCalls' = chatSettled(i, "resolved")

\* x <= y
atMostD(x, y) == ~lessD(y, x)

\* The step adds the four counts of usage u and its cost to the ledger.
AddsUsage(u) ==
  /\ tokensNext.input = tokensNow.input + u.input_tokens
  /\ tokensNext.output = tokensNow.output + u.output_tokens
  /\ tokensNext.cacheRead = tokensNow.cacheRead + u.cache_read_input_tokens
  /\ tokensNext.cacheWrite = tokensNow.cacheWrite + u.cache_creation_input_tokens
  /\ LET cost == calculateCost(u)
     IN /\ costTracker'.sessionCost = addD(costTracker.sessionCost, cost)
        /\ costTracker'.dailyCost = addD(costTracker.dailyCost, cost)
        /\ costTracker'.monthlyCost = addD(costTracker.monthlyCost, cost)

LedgerStep ==
  /\ atMostD(costTracker.dailyCost, costTracker'.dailyCost)
  /\ atMostD(costTracker.monthlyCost, costTracker'.monthlyCost)
  /\ resetSessionCost
     \/ /\ atMostD(costTracker.sessionCost, costTracker'.sessionCost)
        /\ \A f \in TokenFields : tokensNext[f] >= tokensNow[f]
  /\ RoundCompletes => \E u \in LedgerUsages : AddsUsage(u)

\* C17 (SpecLedger): over the rounds and resets of one ClaudeClient, rounds
\* in flight at the same time and rounds that fail included, dailyCost and
\* monthlyCost never decrease, sessionCost and the four token counters
\* decrease only in a resetSessionCost step, and every completed round adds
\* its four token counts and, by an addition of JavaScript, its cost to the
\* ledger.
C17_LedgerMonotone == [][LedgerStep]_vars

\* A round, a reset and another round: the session total is below the
\* daily total.
C17_Witness ==
  /\ Len(modelCalls) >= 2 /\ Len(heap) >= 2
  /\ \A i \in 1..Len(modelCalls) : modelCalls[i].st = "resolved"
  /\ lessD(zeroD, costTracker.sessionCost)
  /\ lessD(costTracker.sessionCost, costTracker.dailyCost)
  /\ costTracker.dailyCost = costTracker.monthlyCost

\* C18 (SpecLedger): a resetSessionCost step leaves sessionCost and the four
\* token counters at zero and dailyCost and monthlyCost as they were.
C18_ResetZeroesSessionOnly ==
  [][resetSessionCost =>
       /\ costTracker'.sessionCost = zeroD
       /\ tokensNext = zeroTokens
       /\ costTracker'.dailyCost = costTracker.dailyCost
       /\ costTracker'.monthlyCost = costTracker.monthlyCost]_vars

\* After a reset that followed a round: nothing in the session, the round
\* in the daily and monthly totals.
C18_Witness ==
  /\ Len(heap) >= 2 /\ Len(modelCalls) >= 1
  /\ costTracker.sessionCost = zeroD /\ tokensNow = zeroTokens
  /\ lessD(zeroD, costTracker.dailyCost) /\ lessD(zeroD, costTracker.monthlyCost)

\* The component-wise sum of two usages.
usagePlus(u1, u2) ==
  [input_tokens |-> u1.input_tokens + u2.input_tokens,
   output_tokens |-> u1.output_tokens + u2.output_tokens,
   cache_creation_input_tokens |->
     u1.cache_creation_input_tokens + u2.cache_creation_input_tokens,
   cache_read_input_tokens |-> u1.cache_read_input_tokens + u2.cache_read_input_tokens]

\* The cost of usage u in exact arithmetic, in 10^-8 dollars.
exactCost(u) ==
    u.input_tokens * priceInput
  + u.output_tokens * priceOutput
  + u.cache_creation_input_tokens * priceCacheWrite
  + u.cache_read_input_tokens * priceCacheRead

\* A cost of the ledger to the nearest 10^-8 dollars.
nearestUnits(cost) == nearestOfTimes(cost, 100000000)

\* The totals of a ledger: its four token counters, and its three costs to
\* the nearest 10^-8 dollars.
totalsOf(l) ==
  [tokensUsed |-> l.hp[l.ct.tokensUsed],
   sessionCost |-> nearestUnits(l.ct.sessionCost),
   dailyCost |-> nearestUnits(l.ct.dailyCost),
   monthlyCost |-> nearestUnits(l.ct.monthlyCost)]

\* The ledger (ct, hp) after u1 and then u2 are recorded.
recordBoth(ct, hp, u1, u2) ==
  LET first == recordUsage(ct, hp, u1) IN recordUsage(first.ct, first.hp, u2)

\* The totals of a new ledger after u1 and then u2 are recorded.
newTotals(u1, u2) == totalsOf(recordBoth(newCostTracker, newHeap, u1, u2))

\* C19 (SpecLedger): on every ledger, recording u1 and then u2 leaves the
\* four token totals as recording the component-wise sum of u1 and u2 once
\* does, and the three costs too when they are taken to the nearest 10^-8
\* dollars, the unit in which the cost of every usage is a whole number and
\* the arithmetic on it exact; the costs themselves are the results of
\* floating-point additions.  On a new ledger {5,2,0,0} then {3,1,0,0} gives
\* the totals of {8,3,0,0}, 8 and 3 tokens and 6900 units, and the same
\* floating-point costs.
C19_AccumulationAdditive ==
  /\ \A u1, u2 \in LedgerUsages :
       LET both == totalsOf(recordBoth(costTracker, heap, u1, u2))
           once == totalsOf(recordUsage(costTracker, heap, usagePlus(u1, u2)))
       IN /\ both = once
          /\ both.dailyCost
               = nearestUnits(costTracker.dailyCost) + exactCost(u1) + exactCost(u2)
  /\ newTotals(usageA, usageSmall) = totalsOf(recordUsage(newCostTracker, newHeap, usageSum))
  /\ newTotals(usageA, usageSmall).sessionCost = exactCost(usageSum)
  /\ recordBoth(newCostTracker, newHeap, usageA, usageSmall).ct
       = recordUsage(newCostTracker, newHeap, usageSum).ct
  /\ (Len(modelCalls) = 2 /\ Len(heap) = 1
        /\ tokensNow = [input |-> 8, output |-> 3, cacheRead |-> 0, cacheWrite |-> 0])
       => nearestUnits(costTracker.sessionCost) = exactCost(usageSum)

\* {5,2,0,0} and {3,1,0,0} were recorded in two rounds.
C19_Witness ==
  /\ Len(modelCalls) = 2 /\ Len(heap) = 1
  /\ modelCalls[1].st = "resolved" /\ modelCalls[2].st = "resolved"
  /\ tokensNow = [input |-> 8, output |-> 3, cacheRead |-> 0, cacheWrite |-> 0]
  /\ nearestUnits(costTracker.sessionCost) = 6900

\* The text, the four token counts and the cost of a turn whose rounds
\* returned the responses rs.
RECURSIVE sumOver(_, _)
sumOver(rs, f) == IF Len(rs) = 0 THEN 0 ELSE sumOver(SliceButLast(rs), f) + rs[Len(rs)].usage[f]

resultIs(rs) ==
  /\ response.content = rs[Len(rs)].content
  /\ response.tokensUsed.input = sumOver(rs, "input_tokens")
  /\ response.tokensUsed.output = sumOver(rs, "output_tokens")
  /\ response.tokensUsed.cacheRead = sumOver(rs, "cache_read_input_tokens")
  /\ response.tokensUsed.cacheWrite = sumOver(rs, "cache_creation_input_tokens")
  /\ response.cost = IF Len(rs) = 1 THEN calculateCost(rs[1].usage)
                     ELSE addD(calculateCost(rs[1].usage), calculateCost(rs[2].usage))
  /\ nearestUnits(response.cost)
       =   300 * sumOver(rs, "input_tokens")
         + 1500 * sumOver(rs, "output_tokens")
         + 375 * sumOver(rs, "cache_creation_input_tokens")
         + 30 * sumOver(rs, "cache_read_input_tokens")

\* The turn has ended with a result.
Done == pc = "responded" /\ response.status = 200

\* C20 (Spec): the text of the turn result is the second round's when a
\* second round ran and the first round's otherwise, and its four token
\* counts and its cost are the sums over the one or two rounds that ran;
\* the ledger of the turn's client, which has recorded each round, holds
\* the same totals.
C20_ResultOfTheRoundsRun ==
  Done =>
    /\ Len(modelCalls) \in {1, 2}
    /\ Len(modelCalls) = 1 => resultIs(<<round1>>)
    /\ Len(modelCalls) = 2 => \E r2 \in Responses2 : resultIs(<<round1, r2>>)
    /\ response.tokensUsed = heap[costTracker.tokensUsed]
    /\ response.cost = costTracker.sessionCost

\* A turn of two rounds has ended with the second round's text.
C20_Witness ==
  /\ Done /\ Len(modelCalls) = 2
  /\ response.content = "text 2" /\ round1.content = "text 1"
  /\ response.tokensUsed.input = 8

\* A turn of one round has ended with the first round's text.
C20_WitnessOneRound ==
  Done /\ Len(modelCalls) = 1 /\ response.content = "text 1"

\* A step of the client while a caller holds a snapshot: a model round is
\* recorded or the session is reset.
ClientStep == snapshot # None /\ (RoundCompletes \/ Len(heap') > Len(heap))

\* A step in which the caller changes the snapshot it holds.
CallerStep ==
  /\ snapshot # None /\ snapshot' # snapshot
  /\ modelCalls' = modelCalls /\ Len(heap') = Len(heap)

\* C21 (SpecSnapshot): the object getCostTracker returned keeps its three
\* costs and its four token counters under every later model round and
\* resetSessionCost of the client, and a change the caller makes to it
\* leaves the three costs and the four token counters of the client's ledger
\* as they were.
C21_SnapshotIsACopy ==
  [][/\ ClientStep =>
          costTrackerJson(snapshot', heap') = costTrackerJson(snapshot, heap)
     /\ CallerStep =>
          costTrackerJson(costTracker', heap') = costTrackerJson(costTracker, heap)]_vars

\* The lines of toolResultsMessage in the messages of the follow-up round.
summaryLines == modelCalls[2].messages[3].content[2]

\* r is a result that executeToolCall can return for call.
ResultOf(call, r) ==
  /\ call.name \notin knownTools =>
       ~r.success /\ r.error = <<"Unknown tool:", call.name>>
  /\ (call.name = "read_file" /\ r.success) => r.result \in Seq(STRING)
  /\ (call.name = "create_file" /\ r.success) => DOMAIN r = {"success"}
  /\ (call.name = "search_files" /\ r.success) => r.result \in Seq(Seq(STRING))
  /\ (call.name = "search_files" /\ ~r.success) => r.error = <<"Unavailable">>
  /\ (call.name = "str_replace" /\ ~r.success) => r.error[Len(r.error)] = call.input.path
  /\ (call.name = "create_file" /\ ~r.success) =>
       r.error \in {<<"Unavailable">>, errRemote("sha wasn't supplied", call.input.path),
                   errRemote("Branch not found", call.input.path)}
  /\ (call.name = "read_file" /\ ~r.success) =>
       r.error \in {<<"Unavailable">>, errRemote("Not Found", call.input.path)}

\* C22 (Spec): the loop over the tool calls leaves one result per call, the
\* i-th being a result of the i-th call, and the summary sent in the
\* follow-up round has one line per call in the order of the calls: the
\* name of the call's tool with Success when its result succeeded and with
\* Failed and the error otherwise.
C22_OneResultAndLinePerCall ==
  HasToolCalls =>
    /\ Len(toolResults) <= Len(round1.toolCalls)
    /\ \A i \in 1..Len(toolResults) : ResultOf(round1.toolCalls[i], toolResults[i])
    /\ pc \in {"chat2", "responded"} =>
         /\ Len(toolResults) = Len(round1.toolCalls)
         /\ Len(summaryLines) = Len(round1.toolCalls)
         /\ \A i \in 1..Len(round1.toolCalls) :
              summaryLines[i] =
                IF toolResults[i].success
                THEN <<"Tool", round1.toolCalls[i].name, "Success">>
                ELSE <<"Tool", round1.toolCalls[i].name, "Failed - ", toolResults[i].error>>

\* One call succeeded and one failed: the summary has a success line and a
\* failure line.
C22_Witness ==
  /\ HasToolCalls /\ pc = "chat2"
  /\ Len(toolResults) = 2
  /\ toolResults[1].success /\ ~toolResults[2].success
  /\ summaryLines[1][3] = "Success"
  /\ summaryLines[2][3] = "Failed - "

\* The candidate spellings of path in the order of the claim.
spellings(path) ==
  << path,
     path \o <<".", "t", "s">>, path \o <<".", "t", "s", "x">>,
     path \o <<".", "j", "s">>, path \o <<".", "j", "s", "x">>,
     path \o <<"/", "i", "n", "d", "e", "x", ".", "t", "s">>,
     path \o <<"/", "i", "n", "d", "e", "x", ".", "t", "s", "x">>,
     path \o <<"/", "i", "n", "d", "e", "x", ".", "j", "s">> >>

\* A step of a running call of getFilesWithImports.
LoaderStep == glPc = "running" /\ glPc' \in {"running", "returned"}

\* Invocation t goes through the spellings one by one, goes to the next
\* only when the fetch of the one it is at has failed, and fetches none
\* once a fetch has resolved or it has returned.
CandidateStep(t) ==
  /\ loads'[t].path = loads[t].path
  /\ loads'[t].cand \in {loads[t].cand, loads[t].cand + 1}
  /\ loads[t].st # "fetch" => (loads'[t].cand = loads[t].cand /\ loads'[t].st # "fetch")
  /\ loads'[t].cand = loads[t].cand + 1 =>
       /\ loads[t].st = "fetch"
       /\ files' = files
       /\ faults' = faults => spellings(loads[t].path)[loads[t].cand] \notin DOMAIN remote

\* A file is added by one invocation, which was fetching the spelling of
\* that file and fetches no more.
FileAdded ==
  /\ Len(files') = Len(files) + 1
  /\ \E t \in 1..Len(loads) :
       /\ loads[t].st = "fetch" /\ loads'[t].st # "fetch"
       /\ loads'[t].cand = loads[t].cand
       /\ files'[Len(files')].path = spellings(loads[t].path)[loads[t].cand]
       /\ files'[Len(files')].path \in DOMAIN remote
       /\ \A o \in 1..Len(loads) : o # t => loads'[o] = loads[o]

\* No fetch having failed for another reason, the spellings before the one
\* an invocation is at do not exist.
EarlierSpellingsMissing ==
  faults = 0 =>
    \A t \in 1..Len(loads) : \A k \in 1..(loads[t].cand - 1) :
      spellings(loads[t].path)[k] \notin DOMAIN remote

\* C23 (SpecLoad): loadFile tries the spellings of a path in the order
\* literal, .ts, .tsx, .js, .jsx, /index.ts, /index.tsx, /index.js; the
\* first that exists is the one loaded, none after it is fetched, and an
\* invocation adds at most one file to the result.
C23_CandidatesInOrder ==
  /\ [][LoaderStep =>
          /\ \A t \in 1..Len(loads) : CandidateStep(t)
          /\ files' # files => FileAdded]_vars
  /\ [](\A t \in 1..Len(loads) :
          /\ possiblePaths(loads[t].path) = spellings(loads[t].path)
          /\ loads[t].cand \in 1..8)
  /\ []EarlierSpellingsMissing

\* /b was loaded as /b.ts, its second spelling, and /b.js, which exists
\* too, was not.
C23_Witness ==
  /\ glPc = "returned" /\ faults = 0
  /\ \E t \in 1..Len(loads) :
       /\ loads[t].path = <<"/", "b">> /\ loads[t].cand = 2 /\ loads[t].st = "done"
  /\ p_b_ts \in filePaths
  /\ p_b_js \in DOMAIN remote /\ p_b_js \notin filePaths

\* C24 (SpecEdit): the content applyStrReplace goes on to write is the
\* fetched content with an occurrence of oldStr replaced by newStr as it
\* is, prefix, newStr, suffix, whatever newStr holds, and the write carries
\* the sha of the file fetched in this call.
C24_LiteralReplacement ==
  edit.st = "write" =>
    /\ edit.sha = edit.file.sha
    /\ \E i \in 1..(Len(edit.file.content) + 1) :
         /\ OccursAt(edit.file.content, edit.oldStr, i)
         /\ edit.newContent = Sub(edit.file.content, 1, i - 1) \o edit.newStr
                                \o Drop(edit.file.content, i + Len(edit.oldStr))

\* The call has returned the failure of a check or of the fetch.
FailedBeforeWrite ==
  /\ edit.st = "returned"
  /\ ~edit.result.success
  /\ \/ edit.result.error = errNotFound(edit.path)
     \/ \E n \in 2..(MaxContentLen + 2) : edit.result.error = errAmbiguous(n, edit.path)
     \/ edit.result.error = errRemote("Not Found", edit.path) /\ "file" \notin DOMAIN edit
     \/ edit.result.error = errRemote("Unavailable", edit.path) /\ "file" \notin DOMAIN edit

\* C25 (SpecEdit): a call of applyStrReplace that returns success = false
\* because oldStr is absent or occurs more than once, or because the fetch
\* failed, has issued no write: the remote changes only when a write the
\* call issued is accepted or when another writer writes, and a call that
\* fails in one of these ways never got to its write.
C25_FailureWritesNothing ==
  /\ [][remote' # remote =>
          \/ extWrites' = extWrites + 1
          \/ edit.st = "write" /\ edit'.st = "returned" /\ edit'.result.success]_vars
  /\ [](FailedBeforeWrite => "newContent" \notin DOMAIN edit)

\* oldStr occurs twice: the call has returned the failure and, nobody else
\* having written, the file is as it was.
C25_Witness ==
  /\ FailedBeforeWrite
  /\ extWrites = 0
  /\ edit.path \in DOMAIN remote
  /\ OccurrenceCount(remote[edit.path], edit.oldStr) = 2
  /\ edit.result.error = errAmbiguous(2, edit.path)

\* The file a path stands for: its first spelling that exists, if any.
Resolved(path) ==
  LET ks == {k \in 1..Len(possiblePaths(path)) : possiblePaths(path)[k] \in DOMAIN remote}
  IN IF ks = {} THEN {}
     ELSE {possiblePaths(path)[CHOOSE k \in ks : \A j \in ks : k <= j]}

\* The files the file at path f imports, by the references the loader follows.
ImportedBy(f) ==
  LET refs == parseImports(remote[f], f)
  IN UNION {Resolved(refs[k]) : k \in 1..Len(refs)}

\* The files whose import distance from some seed is at most d.
RECURSIVE WithinDistance(_)
WithinDistance(d) ==
  IF d = 0 THEN UNION {Resolved(entryPaths[i]) : i \in 1..Len(entryPaths)}
  ELSE WithinDistance(d - 1) \cup UNION {ImportedBy(f) : f \in WithinDistance(d - 1)}

\* C26 (SpecLoad): when no fetch has failed, every file whose shortest
\* import distance from some seed is at most maxDepth is in the result of
\* getFilesWithImports, whatever the order in which the fetches resolved.
C26_ImportExpansionComplete ==
  (glPc = "returned" /\ faults = 0) => WithinDistance(maxDepth) \subseteq filePaths

\* The second model round has been issued.
SecondRoundIssued == Len(modelCalls) = 2

\* C27 (Spec): tool calls are executed only between the two model rounds:
\* none before the first round has returned, and once the second round is
\* issued no call is dispatched, those of its response included, no
\* operation of a tool is in flight and the turn does not write the
\* repository, which other clients may still change.
C27_ToolsOnlyBetweenRounds ==
  /\ [][SecondRoundIssued =>
          /\ ~TurnWrites
          /\ toolResults' = toolResults /\ filesChanged' = filesChanged
          /\ callIdx' = callIdx /\ exec' = "none" /\ edit' = NoEdit
          /\ pc' \in {"chat2", "responded"}]_vars
  /\ [](SecondRoundIssued =>
          /\ exec = "none" /\ edit = NoEdit
          /\ Len(toolResults) = Len(round1.toolCalls))
  /\ [](round1 = None =>
          /\ exec = "none" /\ edit = NoEdit /\ toolResults = <<>> /\ callIdx = 0
          /\ extWrites = 0 => remote = TurnRepo)
  /\ [][round1' = None => ~TurnWrites]_vars

\* The second round's response held a create_file call; the turn has
\* answered with its text and the file is not there.
C27_Witness ==
  /\ pc = "responded" /\ response.status = 200
  /\ SecondRoundIssued
  /\ response.content = "text 3"
  /\ <<"z", ".", "t", "s">> \notin DOMAIN remote
  /\ Len(toolResults) = Len(round1.toolCalls)

\* C28 (SpecLoadFair): every call of getFilesWithImports returns, on
\* repositories with import cycles and when every fetch fails too, every
\* fetch eventually resolving or rejecting; when it has returned, every
\* invocation of loadFile has returned and no fetch is in flight.
C28_LoaderTerminates ==
  /\ (glPc = "running") ~> (glPc = "returned")
  /\ [](glPc = "returned" => \A t \in 1..Len(loads) : loads[t].st = "done")

\* A call on the repository with the cycle m.ts -> /n.ts -> /m.ts -> /n has
\* returned with the three files.
C28_Witness ==
  /\ glPc = "returned" /\ remote = LoadRepo2 /\ maxDepth = 2
  /\ {p_m_ts, p_sn_ts, p_sm_ts} \subseteq filePaths
  /\ \A t \in 1..Len(loads) : loads[t].st = "done"

\* A call has returned after every one of its fetches failed.
C28_WitnessAllFailed ==
  /\ glPc = "returned" /\ entryPaths # <<>> /\ files = <<>>
  /\ \A t \in 1..Len(loads) : loads[t].st = "done" /\ loads[t].cand = 8

====
